---- MODULE Spec2Model ----
(***************************************************************************)
(* A model of the Rinha bytecode compiler and virtual machine:             *)
(* compiler.rs (single-pass AST-to-bytecode compiler), vm.rs (constant and *)
(* identifier pools, the dispatch loop, call frames, memoization),         *)
(* value.rs (runtime values, equality, display, FinalValue).               *)
(*                                                                         *)
(* Indices (pool positions, instruction pointers, stack positions) are     *)
(* 0-based as in the source; a TLA+ sequence s is read at s[i + 1].        *)
(***************************************************************************)
EXTENDS Integers, Sequences, FiniteSets, TLC

VARIABLES
    pc,                 \* position in Vm::interpret / Vm::run
    program,            \* index in Programs of the program handed to interpret
                        \* (0: none); in SpecOps the program itself
    memo_on,            \* FALSE in the reference run, whose Return never records
    baseline,           \* outcome of the run before the reference run
    bytecode,           \* the top-level instruction stream (leaked box)
    call_frames,        \* Vm.call_frames
    constants,          \* Vm.constants
    current_execution,  \* Vm.current_execution: <<>> or <<[function, argument]>>
    functions,          \* Vm.functions
    globals,            \* Vm.globals
    identifiers,        \* Vm.identifiers
    memoization,        \* Vm.memoization
    pure,               \* Vm.pure
    stack,              \* Vm.stack
    instruction_pointer,\* run's local of the same name
    frame_index,        \* run's local of the same name
    environment,        \* run's local of the same name
    skip,               \* run's local of the same name
    error,              \* the message of the Err returned, "" if none
    output,             \* what println! has written, one entry per line
    history,            \* history variable: the last step and what the properties track
    pool_result,        \* result of the last create_constant / create_identifier
    filled              \* <<n, m>>: entries the pools held before `constants`
                        \* and `identifiers`, kept by their number (see SpecPool)

vars == <<pc, program, memo_on, baseline, bytecode, call_frames, constants,
          current_execution, functions, globals, identifiers, memoization, pure,
          stack, instruction_pointer, frame_index, environment, skip, error,
          output, history, pool_result, filled>>

(***************************************************************************)
(* Sequence helpers.                                                       *)
(***************************************************************************)
At(s, i) == s[i + 1]

Front(s) == SubSeq(s, 1, Len(s) - 1)

Top(s) == s[Len(s)]

Take(s, n) == SubSeq(s, 1, n)

\* Iterator::position with ==: the 0-based index of the first element equal to
\* v, -1 for None.
Position(s, v) ==
    IF \E i \in 1..Len(s) : s[i] = v
    THEN (CHOOSE i \in 1..Len(s) : s[i] = v /\ \A j \in 1..(i - 1) : s[j] # v) - 1
    ELSE -1

(***************************************************************************)
(* value.rs: Value and FinalValue.  A string is a sequence of characters.  *)
(***************************************************************************)
Bool(b) == [kind |-> "Bool", b |-> b]

Integer(i) == [kind |-> "Integer", i |-> i]

String(s) == [kind |-> "String", s |-> s]

Tuple(first, second) == [kind |-> "Tuple", first |-> first, second |-> second]

Closure(function, env) == [kind |-> "Closure", function |-> function, environment |-> env]

\* an equality under which a closure is equal to itself
ValueEqIdentity(v, w) == v = w

RECURSIVE ValueEq(_, _)
\* impl PartialEq for Value
ValueEq(v, w) ==
    IF v.kind = "Bool" /\ w.kind = "Bool" THEN v.b = w.b
    ELSE IF v.kind = "Integer" /\ w.kind = "Integer" THEN v.i = w.i
    ELSE IF v.kind = "String" /\ w.kind = "String" THEN v.s = w.s
    ELSE IF v.kind = "Tuple" /\ w.kind = "Tuple"
         THEN ValueEq(v.first, w.first) /\ ValueEq(v.second, w.second)
    ELSE FALSE

RECURSIVE FinalValue(_)
\* impl From<&Value> for FinalValue
FinalValue(v) ==
    IF v.kind = "Tuple"
    THEN [kind |-> "Tuple", first |-> FinalValue(v.first), second |-> FinalValue(v.second)]
    ELSE IF v.kind = "Closure" THEN [kind |-> "Closure"]
    ELSE v

Digits == <<"0", "1", "2", "3", "4", "5", "6", "7", "8", "9">>

RECURSIVE NatToChars(_)
NatToChars(n) ==
    IF n < 10 THEN <<Digits[n + 1]>>
    ELSE NatToChars(n \div 10) \o <<Digits[(n % 10) + 1]>>

RECURSIVE NegToChars(_)
\* the digits of -n for n < 0, without negating n (-i32::MIN is not an i32)
NegToChars(n) ==
    LET d == (10 - (n % 10)) % 10 IN
    IF n > -10 THEN <<Digits[d + 1]>>
    ELSE NegToChars((n + d) \div 10) \o <<Digits[d + 1]>>

\* Display for i32: base 10, signed
IntToChars(i) == IF i < 0 THEN <<"-">> \o NegToChars(i) ELSE NatToChars(i)

RECURSIVE Display(_)
\* impl fmt::Display for Value
Display(v) ==
    IF v.kind = "Bool" THEN (IF v.b THEN <<"t", "r", "u", "e">> ELSE <<"f", "a", "l", "s", "e">>)
    ELSE IF v.kind = "Integer" THEN IntToChars(v.i)
    ELSE IF v.kind = "String" THEN v.s
    ELSE IF v.kind = "Tuple"
         THEN <<"(">> \o Display(v.first) \o <<",", " ">> \o Display(v.second) \o <<")">>
    ELSE <<"<", "#", "c", "l", "o", "s", "u", "r", "e", ">">>

(***************************************************************************)
(* vm.rs: the constant and identifier pools.                               *)
(***************************************************************************)
U16Max == 65535

\* Result<u16>: Ok(index) with the pool after the call, or Err
Ok(index, pool) == [ok |-> TRUE, index |-> index, pool |-> pool]

Err(pool) == [ok |-> FALSE, index |-> -1, pool |-> pool]

\* constants.iter().position(|v| *v == value), by Value's PartialEq
ConstantPosition(pool, value) ==
    IF \E i \in 1..Len(pool) : ValueEq(pool[i], value)
    THEN (CHOOSE i \in 1..Len(pool) :
              ValueEq(pool[i], value) /\ \A j \in 1..(i - 1) : ~ValueEq(pool[j], value)) - 1
    ELSE -1

\* create_constant without its guard on the length of the pool
create_constant_unbounded(pool, value) ==
    LET position == ConstantPosition(pool, value) IN
    IF position >= 0 THEN Ok(position, pool)
    ELSE Ok(Len(pool), Append(pool, value))

\* Vm::create_constant on the pool `pool`
create_constant(pool, value) ==
    IF Len(pool) >= U16Max THEN Err(pool)
    ELSE LET position == ConstantPosition(pool, value) IN
         IF position >= 0 THEN Ok(position, pool)
         ELSE Ok(Len(pool), Append(pool, value))

\* Vm::create_identifier on the pool `pool`
create_identifier(pool, identifier) ==
    IF Len(pool) >= U16Max THEN Err(pool)
    ELSE LET position == Position(pool, identifier) IN
         IF position >= 0 THEN Ok(position, pool)
         ELSE Ok(Len(pool), Append(pool, identifier))

(***************************************************************************)
(* rinha::ast::Term, the tree the front-end hands to the compiler.         *)
(***************************************************************************)
TInt(value) == [kind |-> "Int", value |-> value]

TBool(value) == [kind |-> "Bool", value |-> value]

TStr(value) == [kind |-> "Str", value |-> value]

TBinary(lhs, op, rhs) == [kind |-> "Binary", op |-> op, lhs |-> lhs, rhs |-> rhs]

TLet(name, value, next) == [kind |-> "Let", name |-> name, value |-> value, next |-> next]

TVar(text) == [kind |-> "Var", text |-> text]

TFunction(parameters, value) == [kind |-> "Function", parameters |-> parameters, value |-> value]

TCall(callee, arguments) == [kind |-> "Call", callee |-> callee, arguments |-> arguments]

TTuple(first, second) == [kind |-> "Tuple", first |-> first, second |-> second]

TFirst(value) == [kind |-> "First", value |-> value]

TSecond(value) == [kind |-> "Second", value |-> value]

TIf(condition, then, otherwise) ==
    [kind |-> "If", condition |-> condition, then |-> then, otherwise |-> otherwise]

TPrint(value) == [kind |-> "Print", value |-> value]

TError(message) == [kind |-> "Error", message |-> message]

(***************************************************************************)
(* bytecode.rs: Instruction.  Every instruction carries two immediates, a  *)
(* and b; the ones it does not have are 0.                                 *)
(***************************************************************************)
Instruction(op, a, b) == [op |-> op, a |-> a, b |-> b]

(***************************************************************************)
(* The call position threaded through compilation.  compiler.rs under src/ *)
(* is the revision before CallPosition was added (Vm::compile already      *)
(* passes CallPosition::Unknown, and Vm::run dispatches TailCall), so the  *)
(* definitions below follow the specification's section 4.1.               *)
(***************************************************************************)
\* the root term of a function body is in Tail position
BodyPosition == "Tail"

\* then, otherwise and the next of a let inherit the position of their term
InheritPosition(position) == IF position = "Tail" THEN "Tail" ELSE "NonTail"

\* a compiler that emits Call whatever the position
CallOpcodeIgnoringPosition(position, arity) == Instruction("Call", arity, 0)

\* a Call term in Tail position is emitted as TailCall
CallOpcode(position, arity) ==
    IF position = "Tail" THEN Instruction("TailCall", arity, 0)
    ELSE Instruction("Call", arity, 0)

\* the index field of a function entry equals its position in the table
FunctionIndex(table) == Len(table)

(***************************************************************************)
(* compiler.rs.  A compiler is bytecode, locals and whether it has a       *)
(* parent; the Vm it writes to (pools and function table) is carried in    *)
(* the same record, with ok = FALSE once a `?` has returned an Err.        *)
(***************************************************************************)
I32Max == 2147483647

\* Compiler::new
NewCompiler(has_parent, locals, cs, ids, fns) ==
    [bytecode |-> <<>>, locals |-> locals, parent |-> has_parent,
     constants |-> cs, identifiers |-> ids, functions |-> fns,
     ok |-> TRUE, message |-> ""]

Bail(c, message) == [c EXCEPT !.ok = FALSE, !.message = message]

Emit(c, instruction) == [c EXCEPT !.bytecode = Append(@, instruction)]

\* Compiler::resolve_local
resolve_local(locals, name) == Position(locals, name)

BinaryInstruction(op) == Instruction(op, 0, 0)

RECURSIVE compute_captured_parameters(_, _)
RECURSIVE CapturedInArguments(_, _)
CapturedInArguments(arguments, env) ==
    IF arguments = <<>> THEN {}
    ELSE compute_captured_parameters(Head(arguments), env)
         \cup CapturedInArguments(Tail(arguments), env)

compute_captured_parameters(term, env) ==
    CASE term.kind \in {"Bool", "Int", "Str", "Error"} -> {}
      [] term.kind \in {"First", "Second", "Print"} ->
            compute_captured_parameters(term.value, env)
      [] term.kind = "Tuple" ->
            compute_captured_parameters(term.first, env)
            \cup compute_captured_parameters(term.second, env)
      [] term.kind = "Binary" ->
            compute_captured_parameters(term.lhs, env)
            \cup compute_captured_parameters(term.rhs, env)
      [] term.kind = "If" ->
            compute_captured_parameters(term.condition, env)
            \cup compute_captured_parameters(term.then, env)
            \cup compute_captured_parameters(term.otherwise, env)
      [] term.kind = "Let" ->
            compute_captured_parameters(term.value, env)
            \cup compute_captured_parameters(term.next, env \cup {term.name})
      [] term.kind = "Call" ->
            compute_captured_parameters(term.callee, env)
            \cup CapturedInArguments(term.arguments, env)
      [] term.kind = "Function" ->
            compute_captured_parameters(
                term.value, env \cup {term.parameters[i] : i \in 1..Len(term.parameters)})
      [] term.kind = "Var" -> IF term.text \in env THEN {} ELSE {term.text}

RECURSIVE Compile(_, _, _)
RECURSIVE CompileArguments(_, _)
\* for argument in c.arguments { self.compile(argument, vm)?; }
CompileArguments(arguments, c) ==
    IF arguments = <<>> \/ ~c.ok THEN c
    ELSE CompileArguments(Tail(arguments), Compile(Head(arguments), c, "NonTail"))

\* Term::Int and Term::Str
CompileConstant(value, c) ==
    LET r == create_constant(c.constants, value) IN
    IF ~r.ok THEN Bail(c, "Cannot create more constants.")
    ELSE Emit([c EXCEPT !.constants = r.pool], Instruction("Constant", r.index, 0))

\* Term::Var
CompileVar(term, c) ==
    LET r == create_identifier(c.identifiers, term.text) IN
    IF ~r.ok THEN Bail(c, "Cannot create more identifiers.")
    ELSE LET c1 == [c EXCEPT !.identifiers = r.pool]
             local_index == resolve_local(c.locals, term.text)
         IN IF local_index >= 0
            THEN Emit(c1, Instruction("LocalGet", local_index, r.index))
            ELSE Emit(c1, Instruction("GlobalGet", r.index, 0))

\* Term::Let
\* a let that emits GlobalSet inside functions too
CompileLetAlwaysGlobal(term, c, position) ==
    LET c1 == Compile(term.value, c, "NonTail") IN
    IF ~c1.ok THEN c1
    ELSE LET r == create_identifier(c1.identifiers, term.name) IN
         IF ~r.ok THEN Bail(c1, "Cannot create more identifiers.")
         ELSE Compile(term.next,
                      Emit([c1 EXCEPT !.identifiers = r.pool],
                           Instruction("GlobalSet", r.index, 0)),
                      InheritPosition(position))

CompileLet(term, c, position) ==
    LET c1 == Compile(term.value, c, "NonTail") IN
    IF ~c1.ok THEN c1
    ELSE LET r == create_identifier(c1.identifiers, term.name) IN
         IF ~r.ok THEN Bail(c1, "Cannot create more identifiers.")
         ELSE LET c2 == [c1 EXCEPT !.identifiers = r.pool]
                  c3 == IF c2.parent
                        THEN [c2 EXCEPT !.locals = Append(@, term.name)]
                        ELSE Emit(c2, Instruction("GlobalSet", r.index, 0))
              IN Compile(term.next, c3, InheritPosition(position))

\* a Term::If whose Jump skips one instruction more than the else-branch has
CompileIfJumpingPast(term, c, position) ==
    LET c1 == Compile(term.condition, c, "NonTail") IN
    IF ~c1.ok THEN c1
    ELSE LET c2 == Emit(c1, Instruction("If", 0, 0))
             if_address == Len(c2.bytecode) - 1
         IN IF if_address > I32Max THEN Bail(c2, "Instruction too long.")
            ELSE LET c3 == Compile(term.then, c2, InheritPosition(position)) IN
            IF ~c3.ok THEN c3
            ELSE LET c4 == Emit(c3, Instruction("Jump", 0, 0))
                     jump_address == Len(c4.bytecode) - 1
                 IN IF jump_address > I32Max THEN Bail(c4, "Instruction too long.")
                    ELSE LET c5 == [c4 EXCEPT !.bytecode[if_address + 1] =
                                        Instruction("If", jump_address - if_address, 0)]
                             c6 == Compile(term.otherwise, c5, InheritPosition(position))
                         IN IF ~c6.ok THEN c6
                            ELSE LET after_address == Len(c6.bytecode) - 1 IN
                                 IF after_address > I32Max
                                 THEN Bail(c6, "Instruction too long.")
                                 ELSE [c6 EXCEPT !.bytecode[jump_address + 1] =
                                     Instruction("Jump", after_address - jump_address + 1, 0)]

\* Term::If
CompileIf(term, c, position) ==
    LET c1 == Compile(term.condition, c, "NonTail") IN
    IF ~c1.ok THEN c1
    ELSE LET c2 == Emit(c1, Instruction("If", 0, 0))
             if_address == Len(c2.bytecode) - 1
         IN IF if_address > I32Max THEN Bail(c2, "Instruction too long.")
            ELSE LET c3 == Compile(term.then, c2, InheritPosition(position)) IN
            IF ~c3.ok THEN c3
            ELSE LET c4 == Emit(c3, Instruction("Jump", 0, 0))
                     jump_address == Len(c4.bytecode) - 1
                 IN IF jump_address > I32Max THEN Bail(c4, "Instruction too long.")
                    ELSE LET c5 == [c4 EXCEPT !.bytecode[if_address + 1] =
                                        Instruction("If", jump_address - if_address, 0)]
                             c6 == Compile(term.otherwise, c5, InheritPosition(position))
                         IN IF ~c6.ok THEN c6
                            ELSE LET after_address == Len(c6.bytecode) - 1 IN
                                 IF after_address > I32Max
                                 THEN Bail(c6, "Instruction too long.")
                                 ELSE [c6 EXCEPT !.bytecode[jump_address + 1] =
                                          Instruction("Jump", after_address - jump_address, 0)]

\* a Term::Function whose Return carries the arity instead of the locals count
CompileFunctionReturningArity(term, c) ==
    LET captured == compute_captured_parameters(
                        term.value, {term.parameters[i] : i \in 1..Len(term.parameters)})
        arity == Len(term.parameters)
        child == NewCompiler(TRUE, term.parameters, c.constants, c.identifiers, c.functions)
        body == Compile(term.value, child, BodyPosition)
    IN IF ~body.ok THEN Bail(c, body.message)
       ELSE LET function == [arity |-> arity,
                             bytecode |-> Append(body.bytecode,
                                                 Instruction("Return", arity, 0)),
                             captured |-> captured,
                             index |-> FunctionIndex(body.functions),
                             locals |-> body.locals]
                table == Append(body.functions, function)
            IN Emit([c EXCEPT !.constants = body.constants,
                              !.identifiers = body.identifiers,
                              !.functions = table],
                    Instruction("Closure", Len(table) - 1, 0))

\* Term::Function
CompileFunction(term, c) ==
    LET captured == compute_captured_parameters(
                        term.value, {term.parameters[i] : i \in 1..Len(term.parameters)})
        arity == Len(term.parameters)
        child == NewCompiler(TRUE, term.parameters, c.constants, c.identifiers, c.functions)
        body == Compile(term.value, child, BodyPosition)
    IN IF ~body.ok THEN Bail(c, body.message)
       ELSE LET function == [arity |-> arity,
                             bytecode |-> Append(body.bytecode,
                                                 Instruction("Return", Len(body.locals), 0)),
                             captured |-> captured,
                             index |-> FunctionIndex(body.functions),
                             locals |-> body.locals]
                table == Append(body.functions, function)
            IN Emit([c EXCEPT !.constants = body.constants,
                              !.identifiers = body.identifiers,
                              !.functions = table],
                    Instruction("Closure", Len(table) - 1, 0))

\* Term::Call
CompileCall(term, c, position) ==
    LET c1 == Compile(term.callee, c, "NonTail") IN
    IF ~c1.ok THEN c1
    ELSE LET c2 == CompileArguments(term.arguments, c1) IN
         IF ~c2.ok THEN c2
         ELSE Emit(c2, CallOpcode(position, Len(term.arguments)))

\* Compiler::compile
Compile(term, c, position) ==
    CASE term.kind = "Int" -> CompileConstant(Integer(term.value), c)
      [] term.kind = "Bool" ->
            Emit(c, Instruction(IF term.value THEN "True" ELSE "False", 0, 0))
      [] term.kind = "Str" -> CompileConstant(String(term.value), c)
      [] term.kind = "Binary" ->
            LET c1 == Compile(term.lhs, c, "NonTail") IN
            IF ~c1.ok THEN c1
            ELSE LET c2 == Compile(term.rhs, c1, "NonTail") IN
                 IF ~c2.ok THEN c2 ELSE Emit(c2, BinaryInstruction(term.op))
      [] term.kind = "Tuple" ->
            LET c1 == Compile(term.first, c, "NonTail") IN
            IF ~c1.ok THEN c1
            ELSE LET c2 == Compile(term.second, c1, "NonTail") IN
                 IF ~c2.ok THEN c2 ELSE Emit(c2, Instruction("Tuple", 0, 0))
      [] term.kind \in {"First", "Second", "Print"} ->
            LET c1 == Compile(term.value, c, "NonTail") IN
            IF ~c1.ok THEN c1 ELSE Emit(c1, Instruction(term.kind, 0, 0))
      [] term.kind = "Let" -> CompileLet(term, c, position)
      [] term.kind = "Var" -> CompileVar(term, c)
      [] term.kind = "If" -> CompileIf(term, c, position)
      [] term.kind = "Function" -> CompileFunction(term, c)
      [] term.kind = "Call" -> CompileCall(term, c, position)
      [] term.kind = "Error" -> Bail(c, term.message)

\* Vm::compile, and the Return(0) that Vm::interpret appends
CompileProgram(term) ==
    LET c == Compile(term, NewCompiler(FALSE, <<>>, <<>>, <<>>, <<>>), "Unknown") IN
    IF ~c.ok THEN c ELSE Emit(c, Instruction("Return", 0, 0))

(***************************************************************************)
(* vm.rs: helpers of Vm::run.                                              *)
(***************************************************************************)
\* i32::MIN
I32Min == -I32Max - 1

\* lhs + rhs does not fit an i32
AddOverflows(lhs, rhs) ==
    (rhs > 0 /\ lhs > I32Max - rhs) \/ (rhs < 0 /\ lhs < I32Min - rhs)

\* lhs + rhs as the build without overflow checks computes it: modulo 2^32
WrapAdd(lhs, rhs) ==
    IF rhs > 0 /\ lhs > I32Max - rhs THEN (lhs + I32Min) + (rhs + I32Min)
    ELSE IF rhs < 0 /\ lhs < I32Min - rhs THEN (lhs - I32Min) + (rhs - I32Min)
    ELSE lhs + rhs

SubOverflows(lhs, rhs) ==
    (rhs < 0 /\ lhs > I32Max + rhs) \/ (rhs > 0 /\ lhs < I32Min + rhs)

WrapSub(lhs, rhs) ==
    IF rhs < 0 /\ lhs > I32Max + rhs THEN (lhs + I32Min) - (rhs - I32Min)
    ELSE IF rhs > 0 /\ lhs < I32Min + rhs THEN (lhs - I32Min) - (rhs + I32Min)
    ELSE lhs - rhs

\* a * b for two 16-bit limbs a, b in 0 .. 65535: lo the low 16 bits of the
\* product and hi the bits above them
MulLimbs(a, b) ==
    LET p1 == a * (b \div 256)
        p0 == a * (b % 256)
        s == (p1 % 256) * 256 + p0
    IN [lo |-> s % 65536, hi |-> (p1 \div 256) + (s \div 65536)]

\* lhs * rhs as the build without overflow checks computes it: modulo 2^32
WrapMul(lhs, rhs) ==
    LET ll == lhs % 65536
        lh == (lhs \div 65536) % 65536
        rl == rhs % 65536
        rh == (rhs \div 65536) % 65536
        low == MulLimbs(ll, rl)
        high == (MulLimbs(lh, rl).lo + MulLimbs(ll, rh).lo + low.hi) % 65536
    IN IF high >= 32768 THEN (high - 65536) * 65536 + low.lo
       ELSE high * 65536 + low.lo

\* lhs * rhs does not fit an i32
MulOverflows(lhs, rhs) ==
    IF lhs = 0 \/ rhs = 0 THEN FALSE
    ELSE IF rhs = -1 THEN lhs = I32Min
    ELSE IF lhs = -1 THEN rhs = I32Min
    ELSE IF lhs > 0 /\ rhs > 0 THEN lhs > I32Max \div rhs
    ELSE IF lhs < 0 /\ rhs < 0
         THEN lhs = I32Min \/ rhs = I32Min \/ (-lhs) > I32Max \div (-rhs)
    ELSE IF lhs < 0
         THEN lhs < (IF I32Min % rhs # 0 THEN (I32Min \div rhs) + 1
                     ELSE I32Min \div rhs)
    ELSE rhs < (IF I32Min % lhs # 0 THEN (I32Min \div lhs) + 1
                ELSE I32Min \div lhs)

\* lhs * rhs: v is the product modulo 2^32, o whether the exact product does
\* not fit an i32
Mul(lhs, rhs) == [v |-> WrapMul(lhs, rhs), o |-> MulOverflows(lhs, rhs)]

\* The builds whose outcome a native +, - or * can show: when the exact result
\* does not fit an i32 a build with overflow checks (debug) panics and one
\* without (release) wraps.
Builds(overflows) == IF overflows THEN {"debug", "release"} ELSE {"release"}

\* lhs / rhs and lhs % rhs of Rust for rhs > 0: truncated toward zero
TruncDiv(lhs, rhs) ==
    IF lhs < 0 /\ lhs % rhs # 0 THEN (lhs \div rhs) + 1 ELSE lhs \div rhs

TruncRem(lhs, rhs) ==
    IF lhs < 0 /\ lhs % rhs # 0 THEN (lhs % rhs) - rhs ELSE lhs % rhs

\* a division that yields 0 on a zero divisor instead of None
checked_div_or_zero(lhs, rhs) ==
    IF rhs = 0 THEN <<0>>
    ELSE IF rhs > 0 THEN <<TruncDiv(lhs, rhs)>>
    ELSE <<-TruncDiv(lhs, -rhs)>>

\* i32::checked_div: <<>> for None (rhs == 0, or i32::MIN / -1)
checked_div(lhs, rhs) ==
    IF rhs = 0 \/ (lhs = I32Min /\ rhs = -1) THEN <<>>
    ELSE IF rhs > 0 THEN <<TruncDiv(lhs, rhs)>>
    ELSE IF rhs = I32Min THEN <<IF lhs = I32Min THEN 1 ELSE 0>>
    ELSE <<-TruncDiv(lhs, -rhs)>>

\* i32::checked_rem: <<>> for None (rhs == 0, or i32::MIN % -1)
checked_rem(lhs, rhs) ==
    IF rhs = 0 \/ (lhs = I32Min /\ rhs = -1) THEN <<>>
    ELSE IF rhs > 0 THEN <<TruncRem(lhs, rhs)>>
    ELSE IF rhs = I32Min THEN <<IF lhs = I32Min THEN 0 ELSE lhs>>
    ELSE <<TruncRem(lhs, -rhs)>>

\* pop_operands!: rhs is popped first, then lhs; each pop of an empty stack is an Err
pop_operands(s) ==
    IF Len(s) >= 2
    THEN [ok |-> TRUE, lhs |-> s[Len(s) - 1], rhs |-> s[Len(s)], rest |-> Take(s, Len(s) - 2)]
    ELSE [ok |-> FALSE, lhs |-> Bool(FALSE), rhs |-> Bool(FALSE), rest |-> <<>>]

\* iter().find(|v| v.0 == identifier).map(|v| v.1.clone()) on a list of
\* (name, value) pairs: <<value>> of the first pair of that name, <<>> for None
Find(pairs, identifier) ==
    IF \E i \in 1..Len(pairs) : pairs[i].name = identifier
    THEN <<pairs[CHOOSE i \in 1..Len(pairs) :
                    /\ pairs[i].name = identifier
                    /\ \A j \in 1..(i - 1) : pairs[j].name # identifier].value>>
    ELSE <<>>

\* self.memoization.iter().find(|m| m.0 == (function.index, i))
MemoFind(table, index, i) ==
    IF \E k \in 1..Len(table) : table[k].key = <<index, i>>
    THEN <<table[CHOOSE k \in 1..Len(table) :
                    /\ table[k].key = <<index, i>>
                    /\ \A j \in 1..(k - 1) : table[j].key # <<index, i>>].value>>
    ELSE <<>>

\* Return: if let Some(execution) = self.current_execution { if self.pure { push } }
MemoRecord(table, execution, is_pure, result) ==
    IF execution # <<>> /\ is_pure
    THEN Append(table, [key |-> execution[1], value |-> result])
    ELSE table

\* Return: for _ in 0..arity + 1 { self.stack.pop(); }   (a pop of an empty
\* stack returns None, which is dropped)
PopSlots(s, n) == IF Len(s) >= n THEN Take(s, Len(s) - n) ELSE <<>>

\* a TailCall that pushes new_frame without popping last_frame
TailCallFramesKeepingLast(frames, new_frame) == Append(frames, new_frame)

\* TailCall: the frame stack after last_frame is popped and new_frame pushed
TailCallFrames(frames, new_frame) == Append(Front(frames), new_frame)

\* The bytecode a frame refers to: the top-level stream (-1) or a function's
Block(frame) == IF frame.bytecode = -1 THEN bytecode ELSE At(functions, frame.bytecode).bytecode

CurrentFrame == Top(call_frames)

Code == Block(CurrentFrame)

Current == At(Code, instruction_pointer)

\* one iteration of the inner for loop is about to run its match on one of `ops`
Dispatching(ops) ==
    /\ pc = "dispatch"
    /\ skip = 0
    /\ instruction_pointer < Len(Code)
    /\ Current.op \in ops

compiled == <<program, bytecode, constants, identifiers, functions, filled>>

Note(op) == [history EXCEPT !.op = op]

\* an arm that ends without bail!, break or continue-with-skip
Continue(new_stack) ==
    /\ stack' = new_stack
    /\ instruction_pointer' = instruction_pointer + 1
    /\ history' = Note(Current.op)
    /\ UNCHANGED <<pc, compiled, memo_on, baseline, call_frames, current_execution, globals,
                   memoization, pure, frame_index, environment, skip, error, output,
                   pool_result>>

\* an arm that notes its error and lets the loop go on
RaiseAndGoOn(new_stack, message) ==
    /\ error' = message
    /\ stack' = new_stack
    /\ instruction_pointer' = instruction_pointer + 1
    /\ history' = Note(Current.op)
    /\ UNCHANGED <<pc, compiled, memo_on, baseline, call_frames, current_execution, globals,
                   memoization, pure, frame_index, environment, skip, output, pool_result>>

\* an arm that returns Err(message) out of run and interpret
Raise(new_stack, message) ==
    /\ pc' = "error"
    /\ error' = message
    /\ stack' = new_stack
    /\ instruction_pointer' = instruction_pointer + 1
    /\ history' = Note(Current.op)
    /\ UNCHANGED <<compiled, memo_on, baseline, call_frames, current_execution, globals,
                   memoization, pure, frame_index, environment, skip, output, pool_result>>

\* an arm that panics (expect on None, index out of bounds, unreachable!)
Panic(message) ==
    /\ pc' = "panic"
    /\ error' = message
    /\ instruction_pointer' = instruction_pointer + 1
    /\ history' = Note(Current.op)
    /\ UNCHANGED <<compiled, memo_on, baseline, call_frames, current_execution, globals,
                   memoization, pure, stack, frame_index, environment, skip, output,
                   pool_result>>

StackEmpty == "Expected operand, but stack was empty."

BothIntegers(o) == o.lhs.kind = "Integer" /\ o.rhs.kind = "Integer"

(***************************************************************************)
(* vm.rs: Vm::run, one action per arm of the match.                        *)
(***************************************************************************)
\* if skip > 0 { skip -= 1; continue; }
Skipped ==
    /\ pc = "dispatch"
    /\ skip > 0
    /\ instruction_pointer < Len(Code)
    /\ skip' = skip - 1
    /\ instruction_pointer' = instruction_pointer + 1
    /\ history' = Note("skip")
    /\ UNCHANGED <<pc, compiled, memo_on, baseline, call_frames, current_execution, globals,
                   memoization, pure, stack, frame_index, environment, error, output,
                   pool_result>>

DoConstant ==
    /\ Dispatching({"Constant"})
    /\ Continue(Append(stack, At(constants, Current.a)))

DoTrueFalse ==
    /\ Dispatching({"True", "False"})
    /\ Continue(Append(stack, Bool(Current.op = "True")))

\* an Add that writes the right operand before the left one
AddResultRightThenLeft(lhs, rhs) ==
    CASE lhs.kind = "Integer" /\ rhs.kind = "Integer" -> <<Integer(WrapAdd(lhs.i, rhs.i))>>
      [] lhs.kind = "String" /\ rhs.kind = "Integer" -> <<String(IntToChars(rhs.i) \o lhs.s)>>
      [] lhs.kind = "Integer" /\ rhs.kind = "String" -> <<String(rhs.s \o IntToChars(lhs.i))>>
      [] lhs.kind = "String" /\ rhs.kind = "String" -> <<String(rhs.s \o lhs.s)>>
      [] OTHER -> <<>>

AddResult(lhs, rhs) ==
    CASE lhs.kind = "Integer" /\ rhs.kind = "Integer" -> <<Integer(WrapAdd(lhs.i, rhs.i))>>
      [] lhs.kind = "String" /\ rhs.kind = "Integer" -> <<String(lhs.s \o IntToChars(rhs.i))>>
      [] lhs.kind = "Integer" /\ rhs.kind = "String" -> <<String(IntToChars(lhs.i) \o rhs.s)>>
      [] lhs.kind = "String" /\ rhs.kind = "String" -> <<String(lhs.s \o rhs.s)>>
      [] OTHER -> <<>>

DoAdd ==
    /\ Dispatching({"Add"})
    /\ LET o == pop_operands(stack) IN
       IF ~o.ok THEN Raise(o.rest, StackEmpty)
       ELSE IF AddResult(o.lhs, o.rhs) = <<>> THEN Raise(o.rest, "Wrong types for add.")
       ELSE \E build \in Builds(BothIntegers(o) /\ AddOverflows(o.lhs.i, o.rhs.i)) :
                IF build = "debug" THEN Panic("attempt to add with overflow")
                ELSE Continue(Append(o.rest, AddResult(o.lhs, o.rhs)[1]))

\* whether a native Sub or Mul overflows (the comparisons never do)
Overflows(op, lhs, rhs) ==
    IF op = "Sub" THEN SubOverflows(lhs, rhs)
    ELSE IF op = "Mul" THEN Mul(lhs, rhs).o
    ELSE FALSE

\* Sub, Mul, Gt, Lt, Gte, Lte: (Integer, Integer) or an Err
IntegerResult(op, lhs, rhs) ==
    CASE op = "Sub" -> Integer(WrapSub(lhs, rhs))
      [] op = "Mul" -> Integer(Mul(lhs, rhs).v)
      [] op = "Gt" -> Bool(lhs > rhs)
      [] op = "Lt" -> Bool(lhs < rhs)
      [] op = "Gte" -> Bool(lhs >= rhs)
      [] op = "Lte" -> Bool(lhs <= rhs)

DoIntegerOp ==
    /\ Dispatching({"Sub", "Mul", "Gt", "Lt", "Gte", "Lte"})
    /\ LET o == pop_operands(stack) IN
       IF ~o.ok THEN Raise(o.rest, StackEmpty)
       ELSE IF ~BothIntegers(o) THEN Raise(o.rest, "Operands must be both integers.")
       ELSE \E build \in Builds(Overflows(Current.op, o.lhs.i, o.rhs.i)) :
                IF build = "debug" THEN Panic("attempt to compute with overflow")
                ELSE Continue(Append(o.rest, IntegerResult(Current.op, o.lhs.i, o.rhs.i)))

\* Div and Rem: the checked operation, and the message of its ok_or_else
Checked(op, lhs, rhs) == IF op = "Div" THEN checked_div(lhs, rhs) ELSE checked_rem(lhs, rhs)

ZeroMessage(op) ==
    IF op = "Div" THEN "Attempted to divide by zero" ELSE "Attempted to take remainder by zero"

DoDivRem ==
    /\ Dispatching({"Div", "Rem"})
    /\ LET o == pop_operands(stack) IN
       IF ~o.ok THEN Raise(o.rest, StackEmpty)
       ELSE IF ~BothIntegers(o) THEN Raise(o.rest, "Operands must be both integers.")
       ELSE IF Checked(Current.op, o.lhs.i, o.rhs.i) = <<>>
            THEN Raise(o.rest, ZeroMessage(Current.op))
       ELSE Continue(Append(o.rest, Integer(Checked(Current.op, o.lhs.i, o.rhs.i)[1])))

DoEqNeq ==
    /\ Dispatching({"Eq", "Neq"})
    /\ LET o == pop_operands(stack) IN
       IF ~o.ok THEN Raise(o.rest, StackEmpty)
       ELSE Continue(Append(o.rest, Bool(ValueEq(o.lhs, o.rhs) = (Current.op = "Eq"))))

\* an And / Or that takes a non-Bool operand for false instead of raising
DoAndOrCoercing ==
    /\ Dispatching({"And", "Or"})
    /\ LET o == pop_operands(stack)
           l == o.lhs.kind = "Bool" /\ o.lhs.b
           r == o.rhs.kind = "Bool" /\ o.rhs.b
       IN IF ~o.ok THEN Raise(o.rest, StackEmpty)
          ELSE Continue(Append(o.rest, Bool(IF Current.op = "And" THEN l /\ r ELSE l \/ r)))

DoAndOr ==
    /\ Dispatching({"And", "Or"})
    /\ LET o == pop_operands(stack) IN
       IF ~o.ok THEN Raise(o.rest, StackEmpty)
       ELSE IF ~(o.lhs.kind = "Bool" /\ o.rhs.kind = "Bool")
            THEN Raise(o.rest, "Operands must be both integers.")
       ELSE Continue(Append(o.rest, Bool(IF Current.op = "And" THEN o.lhs.b /\ o.rhs.b
                                                                ELSE o.lhs.b \/ o.rhs.b)))

\* a Tuple that takes the value pushed second for the first component
DoTupleSwapped ==
    /\ Dispatching({"Tuple"})
    /\ LET o == pop_operands(stack) IN
       IF ~o.ok THEN Raise(o.rest, StackEmpty)
       ELSE Continue(Append(o.rest, Tuple(o.rhs, o.lhs)))

DoTuple ==
    /\ Dispatching({"Tuple"})
    /\ LET o == pop_operands(stack) IN
       IF ~o.ok THEN Raise(o.rest, StackEmpty)
       ELSE Continue(Append(o.rest, Tuple(o.lhs, o.rhs)))

DoFirstSecond ==
    /\ Dispatching({"First", "Second"})
    /\ IF stack = <<>> THEN Raise(stack, "Expected operand, but self.stack was empty.")
       ELSE IF Top(stack).kind # "Tuple"
            THEN Raise(Front(stack),
                       IF Current.op = "First"
                       THEN "Tried to compute first of a non tuple type."
                       ELSE "Tried to compute second of a non tuple type.")
       ELSE Continue(Append(Front(stack), IF Current.op = "First" THEN Top(stack).first
                                                                   ELSE Top(stack).second))

\* a Print that pops the value it writes
DoPrintPopping ==
    /\ Dispatching({"Print"})
    /\ pure' = FALSE
    /\ instruction_pointer' = instruction_pointer + 1
    /\ history' = [Note("Print") EXCEPT
                      !.ce_printed = @ \/ (current_execution # <<>>
                                           /\ Len(call_frames) = history.ce_depth)]
    /\ IF stack = <<>>
       THEN /\ pc' = "error"
            /\ error' = "Error printing. No value found in the self.stack to be set."
            /\ output' = output
            /\ stack' = stack
       ELSE /\ output' = Append(output, Display(Top(stack)))
            /\ stack' = Front(stack)
            /\ UNCHANGED <<pc, error>>
    /\ UNCHANGED <<compiled, memo_on, baseline, call_frames, current_execution, globals,
                   memoization, frame_index, environment, skip, pool_result>>

DoPrint ==
    /\ Dispatching({"Print"})
    /\ pure' = FALSE
    /\ instruction_pointer' = instruction_pointer + 1
    /\ history' = [Note("Print") EXCEPT
                      !.ce_printed = @ \/ (current_execution # <<>>
                                           /\ Len(call_frames) = history.ce_depth)]
    /\ IF stack = <<>>
       THEN /\ pc' = "error"
            /\ error' = "Error printing. No value found in the self.stack to be set."
            /\ output' = output
       ELSE /\ output' = Append(output, Display(Top(stack)))
            /\ UNCHANGED <<pc, error>>
    /\ UNCHANGED <<compiled, memo_on, baseline, call_frames, current_execution, globals,
                   memoization, stack, frame_index, environment, skip, pool_result>>

DoGlobalSet ==
    /\ Dispatching({"GlobalSet"})
    /\ IF stack = <<>>
       THEN Raise(stack, "Error setting global variable. No value found in the self.stack to be set.")
       ELSE /\ globals' = Append(globals, [name |-> At(identifiers, Current.a),
                                           value |-> Top(stack)])
            /\ stack' = Front(stack)
            /\ instruction_pointer' = instruction_pointer + 1
            /\ history' = Note("GlobalSet")
            /\ UNCHANGED <<pc, compiled, memo_on, baseline, call_frames, current_execution,
                           memoization, pure, frame_index, environment, skip, error, output,
                           pool_result>>

\* GlobalGet: environment.iter().find(..).or(self.globals.iter().find(..))
\* a lookup that tries the global table before the captured list
LookupGlobalsFirst(env, table, identifier) ==
    IF Find(table, identifier) # <<>> THEN Find(table, identifier) ELSE Find(env, identifier)

Lookup(env, table, identifier) ==
    IF Find(env, identifier) # <<>> THEN Find(env, identifier) ELSE Find(table, identifier)

DoGlobalGet ==
    /\ Dispatching({"GlobalGet"})
    /\ LET value == Lookup(environment, globals, At(identifiers, Current.a)) IN
       IF value = <<>>
       THEN Raise(stack, "Unknown variable " \o At(identifiers, Current.a) \o ".")
       ELSE Continue(Append(stack, value[1]))

DoLocalGet ==
    /\ Dispatching({"LocalGet"})
    /\ LET absolute_index == frame_index + Current.a IN
       IF absolute_index >= Len(stack)
       THEN Raise(stack, "Variable " \o At(identifiers, Current.b) \o " not found.")
       ELSE Continue(Append(stack, At(stack, absolute_index)))

DoIf ==
    /\ Dispatching({"If"})
    /\ IF stack = <<>>
       THEN Raise(stack, "Error in if. No value found in the self.stack to be tested.")
       ELSE IF Top(stack).kind # "Bool"
            THEN Raise(Front(stack), "Type error: if condition must evaluate to a boolean.")
       ELSE /\ skip' = IF Top(stack).b THEN skip ELSE Current.a
            /\ stack' = Front(stack)
            /\ instruction_pointer' = instruction_pointer + 1
            /\ history' = Note("If")
            /\ UNCHANGED <<pc, compiled, memo_on, baseline, call_frames, current_execution,
                           globals, memoization, pure, frame_index, environment, error,
                           output, pool_result>>

\* a Jump that skips nothing
DoJumpNowhere ==
    /\ Dispatching({"Jump"})
    /\ skip' = 0
    /\ instruction_pointer' = instruction_pointer + 1
    /\ history' = Note("Jump")
    /\ UNCHANGED <<pc, compiled, memo_on, baseline, call_frames, current_execution, globals,
                   memoization, pure, stack, frame_index, environment, error, output,
                   pool_result>>

DoJump ==
    /\ Dispatching({"Jump"})
    /\ skip' = Current.a
    /\ instruction_pointer' = instruction_pointer + 1
    /\ history' = Note("Jump")
    /\ UNCHANGED <<pc, compiled, memo_on, baseline, call_frames, current_execution, globals,
                   memoization, pure, stack, frame_index, environment, error, output,
                   pool_result>>

RECURSIVE SetToSeq(_)
\* The order in which a HashSet is iterated is not specified; the captured
\* list built from it is only ever searched by name, and every name occurs in
\* it at most once, so one order stands for all.
SetToSeq(set) ==
    IF set = {} THEN <<>>
    ELSE LET x == CHOOSE y \in set : TRUE IN <<x>> \o SetToSeq(set \ {x})

RECURSIVE Capture(_, _, _, _, _)
\* Closure: the capture loop over names; ok is FALSE when self.stack[absolute_index]
\* is out of bounds, which panics
Capture(names, parent_locals, parent_environment, base, s) ==
    IF names = <<>> THEN [ok |-> TRUE, environment |-> <<>>]
    ELSE LET captured == Head(names)
             index == Position(parent_locals, captured)
             rest == Capture(Tail(names), parent_locals, parent_environment, base, s)
             in_parent == Find(parent_environment, captured)
         IN IF index >= 0
            THEN IF base + index >= Len(s) THEN [ok |-> FALSE, environment |-> <<>>]
                 ELSE [rest EXCEPT !.environment =
                          <<[name |-> captured, value |-> At(s, base + index)]>> \o @]
            ELSE IF in_parent # <<>>
                 THEN [rest EXCEPT !.environment =
                          <<[name |-> captured, value |-> in_parent[1]]>> \o @]
            ELSE rest

DoClosure ==
    /\ Dispatching({"Closure"})
    /\ LET function == At(functions, Current.a)
           parent == CurrentFrame.closure
           env == IF parent.kind = "Closure"
                  THEN Capture(SetToSeq(function.captured),
                               At(functions, parent.function).locals,
                               parent.environment, frame_index, stack)
                  ELSE [ok |-> TRUE, environment |-> <<>>]
       IN IF ~env.ok THEN Panic("index out of bounds")
          ELSE Continue(Append(stack, Closure(Current.a, env.environment)))

\* Call: let last_argument = &self.stack[self.stack.len() - 1]
CallLastArgument(s) == At(s, Len(s) - 1)

\* TailCall: let last_argument = &self.stack[self.stack.len() - 2]
TailCallLastArgument(s) == At(s, Len(s) - 2)

\* a probe that never finds an entry
ProbeAlwaysMissing(table, arity, last_argument, index) ==
    IF arity = 1 /\ last_argument.kind = "Integer"
    THEN [hit |-> <<>>, key |-> <<<<index, last_argument.i>>>>]
    ELSE [hit |-> <<>>, key |-> <<>>]

\* The unary-int probe of Call and TailCall: the memoized value found (hit) and
\* the key current_execution is set to on a miss, each <<>> for none
Probe(table, arity, last_argument, index) ==
    IF arity = 1 /\ last_argument.kind = "Integer"
    THEN [hit |-> MemoFind(table, index, last_argument.i),
          key |-> <<<<index, last_argument.i>>>>]
    ELSE [hit |-> <<>>, key |-> <<>>]

\* the memoized value the table holds for the call of `function` on the
\* arguments on top of `s`, <<>> if none (history only)
Recorded(table, function, s) ==
    IF function.arity = 1 /\ Top(s).kind = "Integer"
    THEN MemoFind(table, function.index, Top(s).i)
    ELSE <<>>

\* a memoization hit that leaves the closure and the argument under the value
HitKeepingOperands(op, memoized) ==
    /\ stack' = Append(stack, memoized)
    /\ instruction_pointer' = instruction_pointer + 1
    /\ history' = [Note(op) EXCEPT !.hit = TRUE]
    /\ UNCHANGED <<pc, compiled, memo_on, baseline, call_frames, current_execution, globals,
                   memoization, pure, frame_index, environment, skip, error, output,
                   pool_result>>

\* a memoization hit: self.stack.truncate(len - 2); push(memoized); continue
Hit(op, memoized) ==
    /\ stack' = Append(Take(stack, Len(stack) - 2), memoized)
    /\ instruction_pointer' = instruction_pointer + 1
    /\ history' = [Note(op) EXCEPT !.hit = TRUE]
    /\ UNCHANGED <<pc, compiled, memo_on, baseline, call_frames, current_execution, globals,
                   memoization, pure, frame_index, environment, skip, error, output,
                   pool_result>>

\* current_frame.instruction_pointer = instruction_pointer
Persist(frames, ip) == [frames EXCEPT ![Len(frames)].instruction_pointer = ip]

NewFrame(function_position, closure, base) ==
    [bytecode |-> function_position, closure |-> closure,
     instruction_pointer |-> 0, frame_index |-> base]

\* a Call that does not compare the function's arity with its own
DoCallAnyArity ==
    /\ Dispatching({"Call"})
    /\ LET arity == Current.a
           closure_index == Len(stack) - 1 - arity
       IN IF closure_index < 0 THEN Panic("index out of bounds")
          ELSE LET closure == At(stack, closure_index) IN
          IF closure.kind # "Closure"
          THEN Raise(stack, "Attempted to call value that is not a function!")
          ELSE LET function == At(functions, closure.function)
                   probe == Probe(memoization, arity, CallLastArgument(stack), function.index)
          IN IF probe.hit # <<>> THEN Hit("Call", probe.hit[1])
             ELSE /\ current_execution' = IF probe.key # <<>> THEN probe.key
                                          ELSE current_execution
                  /\ call_frames' = Append(Persist(call_frames, instruction_pointer + 1),
                                           NewFrame(closure.function, closure,
                                                    Len(stack) - arity))
                  /\ pc' = "select"
                  /\ instruction_pointer' = instruction_pointer + 1
                  /\ history' = [Note("Call") EXCEPT
                                    !.hit = FALSE,
                                    !.recorded = Append(@, <<>>),
                                    !.callers = Append(@, [below |-> Take(stack, closure_index),
                                                            resume |-> instruction_pointer + 1,
                                                            tail |-> FALSE,
                                                            arguments |->
                                                                SubSeq(stack, closure_index + 2,
                                                                       Len(stack)),
                                                            entered |->
                                                                <<function.index>> \o
                                                                SubSeq(stack, closure_index + 2,
                                                                       Len(stack))]),
                                    !.ce_depth = IF probe.key # <<>>
                                                 THEN Len(call_frames) + 1 ELSE @,
                                    !.ce_printed = IF probe.key # <<>> THEN FALSE ELSE @]
                  /\ UNCHANGED <<compiled, memo_on, baseline, globals, memoization, pure,
                                 stack, frame_index, environment, skip, error, output,
                                 pool_result>>

DoCall ==
    /\ Dispatching({"Call"})
    /\ LET arity == Current.a
           closure_index == Len(stack) - 1 - arity
       IN IF closure_index < 0 THEN Panic("index out of bounds")
          ELSE LET closure == At(stack, closure_index) IN
          IF closure.kind # "Closure"
          THEN Raise(stack, "Attempted to call value that is not a function!")
          ELSE LET function == At(functions, closure.function)
                   probe == Probe(memoization, arity, CallLastArgument(stack), function.index)
          IN IF function.arity # arity
             THEN Raise(stack, "Attempted to call function with wrong number of arguments.")
             ELSE IF probe.hit # <<>> THEN Hit("Call", probe.hit[1])
             ELSE /\ current_execution' = IF probe.key # <<>> THEN probe.key
                                          ELSE current_execution
                  /\ call_frames' = Append(Persist(call_frames, instruction_pointer + 1),
                                           NewFrame(closure.function, closure,
                                                    Len(stack) - arity))
                  /\ pc' = "select"
                  /\ instruction_pointer' = instruction_pointer + 1
                  /\ history' = [Note("Call") EXCEPT
                                    !.hit = FALSE,
                                    !.recorded = Append(@, <<>>),
                                    !.callers = Append(@, [below |-> Take(stack, closure_index),
                                                            resume |-> instruction_pointer + 1,
                                                            tail |-> FALSE,
                                                            arguments |->
                                                                SubSeq(stack, closure_index + 2,
                                                                       Len(stack)),
                                                            entered |->
                                                                <<function.index>> \o
                                                                SubSeq(stack, closure_index + 2,
                                                                       Len(stack))]),
                                    !.ce_depth = IF probe.key # <<>>
                                                 THEN Len(call_frames) + 1 ELSE @,
                                    !.ce_printed = IF probe.key # <<>> THEN FALSE ELSE @]
                  /\ UNCHANGED <<compiled, memo_on, baseline, globals, memoization, pure,
                                 stack, frame_index, environment, skip, error, output,
                                 pool_result>>

\* TailCall: the operand stack after kept is drained, the caller's locals and
\* closure slot are truncated away and kept is put back
TailCallStack(s, arity, locals_to_remove) ==
    LET kept == SubSeq(s, Len(s) - arity, Len(s))
        below == Take(s, Len(s) - arity - 1)
    IN Take(below, Len(below) - locals_to_remove - 1) \o kept

DoTailCall ==
    /\ Dispatching({"TailCall"})
    /\ LET arity == Current.a
           closure_index == Len(stack) - 1 - arity
       IN IF closure_index < 0 THEN Panic("index out of bounds")
          ELSE LET closure == At(stack, closure_index) IN
          IF closure.kind # "Closure"
          THEN Raise(stack, "Attempted to call value that is not a function!")
          ELSE LET function == At(functions, closure.function)
                   probe == Probe(memoization, arity, TailCallLastArgument(stack),
                                  function.index)
                   last_frame == CurrentFrame
          IN IF function.arity # arity
             THEN Raise(stack, "Attempted to call function with wrong number of arguments.")
             ELSE IF probe.hit # <<>> THEN Hit("TailCall", probe.hit[1])
             ELSE IF last_frame.closure.kind # "Closure" THEN Panic("unreachable")
             ELSE LET locals_to_remove == Len(At(functions, last_frame.closure.function).locals)
                      underflow == Len(stack) - arity - 1 < locals_to_remove + 1
                      \* self.stack.len() - locals_to_remove - 1 below zero: a panic
                      \* with overflow checks, a wrapped length (truncate does
                      \* nothing) without
                      new_stack == IF underflow THEN stack
                                   ELSE TailCallStack(stack, arity, locals_to_remove)
                  IN \E build \in (IF underflow THEN {"debug", "release"} ELSE {"release"}) :
                     IF build = "debug" THEN Panic("attempt to subtract with overflow")
                     ELSE /\ current_execution' = IF probe.key # <<>> THEN probe.key
                                                  ELSE current_execution
                          /\ stack' = new_stack
                          /\ call_frames' = TailCallFrames(
                                                Persist(call_frames, instruction_pointer + 1),
                                                NewFrame(closure.function, closure,
                                                         Len(new_stack) - arity))
                          /\ pc' = "select"
                          /\ instruction_pointer' = instruction_pointer + 1
                          /\ history' = [Note("TailCall") EXCEPT
                                            !.hit = FALSE,
                                            !.recorded = Append(Front(@),
                                                Top(@) \o Recorded(memoization, function, stack)),
                                            !.callers = Append(Front(@),
                                                [Top(@) EXCEPT !.tail = TRUE,
                                                                !.arguments =
                                                                    SubSeq(stack, closure_index + 2,
                                                                           Len(stack))]),
                                            !.ce_depth = IF probe.key # <<>>
                                                         THEN Len(call_frames) ELSE @,
                                            !.ce_printed = IF probe.key # <<>> THEN FALSE ELSE @]
                          /\ UNCHANGED <<compiled, memo_on, baseline, globals, memoization,
                                         pure, frame_index, environment, skip, error, output,
                                         pool_result>>

\* Return: the operand stack after the result is popped, arity + 1 slots are
\* popped and the result is pushed
ReturnStack(s, arity) == Append(PopSlots(Front(s), arity + 1), Top(s))

DoReturn ==
    /\ Dispatching({"Return"})
    /\ IF stack = <<>> THEN Panic("Function must have a return value")
       ELSE /\ memoization' = IF memo_on
                              THEN MemoRecord(memoization, current_execution, pure, Top(stack))
                              ELSE memoization
            /\ current_execution' = <<>>
            /\ stack' = ReturnStack(stack, Current.a)
            /\ call_frames' = Front(call_frames)
            /\ pc' = "select"
            /\ instruction_pointer' = instruction_pointer + 1
            /\ history' = [Note("Return") EXCEPT !.recorded = Front(@),
                                                 !.callers = Front(@)]
            /\ UNCHANGED <<compiled, memo_on, baseline, globals, pure, frame_index,
                           environment, skip, error, output, pool_result>>

\* the head of the outer loop: the top call frame is selected, self.pure = true
SelectFrame ==
    /\ pc = "select"
    /\ call_frames # <<>>
    /\ frame_index' = CurrentFrame.frame_index
    /\ instruction_pointer' = CurrentFrame.instruction_pointer
    /\ environment' = IF CurrentFrame.closure.kind = "Closure"
                      THEN CurrentFrame.closure.environment ELSE <<>>
    /\ pure' = TRUE
    /\ skip' = 0
    /\ pc' = "dispatch"
    /\ history' = Note("select")
    /\ UNCHANGED <<compiled, memo_on, baseline, call_frames, current_execution, globals,
                   memoization, stack, error, output, pool_result>>

\* the outer loop breaks on an empty frame stack; self.stack.last().expect(..)
Finish ==
    /\ pc = "select"
    /\ call_frames = <<>>
    /\ pc' = IF stack = <<>> THEN "panic" ELSE "done"
    /\ history' = Note("finish")
    /\ UNCHANGED <<compiled, memo_on, baseline, call_frames, current_execution, globals,
                   memoization, pure, stack, instruction_pointer, frame_index, environment,
                   skip, error, output, pool_result>>

\* what interpret returned: Ok(FinalValue) as <<value>>, an Err or a panic as <<>>
Ended == pc \in {"done", "error", "panic"}

Outcome == IF pc = "done" THEN <<FinalValue(Top(stack))>> ELSE <<>>

(***************************************************************************)
(* The programs interpret is run on: the programs of tests/tests.rs (with  *)
(* smaller arguments) and programs for the cases the properties are about. *)
(* expected is the value the program denotes, <<>> when its evaluation is  *)
(* an error.                                                               *)
(***************************************************************************)
Foo == <<"f", "o", "o">>

Bar == <<"b", "a", "r">>

Call1(name, argument) == TCall(TVar(name), <<argument>>)

Call2(name, a, b) == TCall(TVar(name), <<a, b>>)

\* tests.rs algebra: (12 - 5/2) * 4 + 19 % 4
Scaled == TBinary(TBinary(TInt(12), "Sub", TBinary(TInt(5), "Div", TInt(2))), "Mul", TInt(4))

Algebra == TBinary(Scaled, "Add", TBinary(TInt(19), "Rem", TInt(4)))

\* tests.rs division_by_zero, remainder_by_zero: (12 - 5/2) * 4 / (-3 + 3)
ByZero(op) == TBinary(Scaled, op, TBinary(TInt(-3), "Add", TInt(3)))

\* tests.rs if_works: if (42 > 0) { let a = "foo"; a + "bar" } else { 1 }
IfWorks ==
    TIf(TBinary(TInt(42), "Gt", TInt(0)),
        TLet("a", TStr(Foo), TBinary(TVar("a"), "Add", TStr(Bar))),
        TInt(1))

\* tests.rs globals_work: let foo = 42; let bar = true; (bar, foo)
GlobalsWork ==
    TLet("foo", TInt(42), TLet("bar", TBool(TRUE), TTuple(TVar("bar"), TVar("foo"))))

\* second((false, "foo" + 42)) != first((1, 2))
Projections ==
    TBinary(TSecond(TTuple(TBool(FALSE), TBinary(TStr(Foo), "Add", TInt(42)))),
            "Neq", TFirst(TTuple(TInt(1), TInt(2))))

\* tests.rs sum: let sum = fn (n) => { if (n == 1) { n } else { n + sum(n - 1) } };
\*               print(sum(k))
Sum(k) ==
    TLet("sum",
         TFunction(<<"n">>,
             TIf(TBinary(TVar("n"), "Eq", TInt(1)),
                 TVar("n"),
                 TBinary(TVar("n"), "Add", Call1("sum", TBinary(TVar("n"), "Sub", TInt(1)))))),
         TPrint(Call1("sum", TInt(k))))

\* tests.rs fibonacci: fib(n) = if (n < 2) { n } else { fib(n - 1) + fib(n - 2) }
Fibonacci(k) ==
    TLet("fib",
         TFunction(<<"n">>,
             TIf(TBinary(TVar("n"), "Lt", TInt(2)),
                 TVar("n"),
                 TBinary(Call1("fib", TBinary(TVar("n"), "Sub", TInt(1))), "Add",
                         Call1("fib", TBinary(TVar("n"), "Sub", TInt(2)))))),
         TPrint(Call1("fib", TInt(k))))

\* tests.rs combination:
\*   let combination = fn (n, k) => { let a = k == 0; let b = k == n;
\*     if (a || b) { 1 } else { combination(n - 1, k - 1) + combination(n - 1, k) } };
\*   print(combination(n, k))
Combination(n, k) ==
    TLet("combination",
         TFunction(<<"n", "k">>,
             TLet("a", TBinary(TVar("k"), "Eq", TInt(0)),
             TLet("b", TBinary(TVar("k"), "Eq", TVar("n")),
             TIf(TBinary(TVar("a"), "Or", TVar("b")),
                 TInt(1),
                 TBinary(Call2("combination", TBinary(TVar("n"), "Sub", TInt(1)),
                                              TBinary(TVar("k"), "Sub", TInt(1))),
                         "Add",
                         Call2("combination", TBinary(TVar("n"), "Sub", TInt(1)),
                                              TVar("k"))))))),
         TPrint(Call2("combination", TInt(n), TInt(k))))

\* let x = 1; let x = 2; x
Redefinition == TLet("x", TInt(1), TLet("x", TInt(2), TVar("x")))

\* let f = fn (c) => { if (c) { let a = 1; a } else { 2 } };
\* let g = fn (x, y) => { f(false) + y };
\* g(0, 10)
BranchLet ==
    TLet("f",
         TFunction(<<"c">>,
             TIf(TVar("c"),
                 TLet("a", TInt(1), TVar("a")),
                 TInt(2))),
    TLet("g",
         TFunction(<<"x", "y">>, TBinary(Call1("f", TBool(FALSE)), "Add", TVar("y"))),
         Call2("g", TInt(0), TInt(10))))

\* let g = fn (a, b) => { a };
\* let f = fn (n) => { g(n, 1) + 1 };
\* f(5) + f(5)
InnerCall ==
    TLet("g", TFunction(<<"a", "b">>, TVar("a")),
    TLet("f",
         TFunction(<<"n">>, TBinary(Call2("g", TVar("n"), TInt(1)), "Add", TInt(1))),
         TBinary(Call1("f", TInt(5)), "Add", Call1("f", TInt(5)))))

\* let g = fn (a, b) => { a };
\* let f = fn (n) => { print(n) + g(n, 0) };
\* f(5) + f(5)
PrintThenCall ==
    TLet("g", TFunction(<<"a", "b">>, TVar("a")),
    TLet("f",
         TFunction(<<"n">>, TBinary(TPrint(TVar("n")), "Add", Call2("g", TVar("n"), TInt(0)))),
         TBinary(Call1("f", TInt(5)), "Add", Call1("f", TInt(5)))))

\* let loop = fn (n) => { if (n == 0) { 0 } else { loop(n - 1) } }; loop(k)
Loop(k) ==
    TLet("loop",
         TFunction(<<"n">>,
             TIf(TBinary(TVar("n"), "Eq", TInt(0)),
                 TInt(0),
                 Call1("loop", TBinary(TVar("n"), "Sub", TInt(1))))),
         Call1("loop", TInt(k)))

\* let even = fn (n) => { if (n == 0) { true } else { odd(n - 1) } };
\* let odd = fn (n) => { if (n == 0) { false } else { even(n - 1) } };
\* even(k) && true
EvenOdd(k) ==
    TLet("even",
         TFunction(<<"n">>,
             TIf(TBinary(TVar("n"), "Eq", TInt(0)),
                 TBool(TRUE),
                 Call1("odd", TBinary(TVar("n"), "Sub", TInt(1))))),
    TLet("odd",
         TFunction(<<"n">>,
             TIf(TBinary(TVar("n"), "Eq", TInt(0)),
                 TBool(FALSE),
                 Call1("even", TBinary(TVar("n"), "Sub", TInt(1))))),
         TBinary(Call1("even", TInt(k)), "And", TBool(TRUE))))

\* let g = fn (a, b) => { a };
\* let f = fn (n) => { g(n, 1) + 1 };
\* let h = fn (x) => { f(5) };
\* f(5) + h(1)
TailAfterRecord ==
    TLet("g", TFunction(<<"a", "b">>, TVar("a")),
    TLet("f",
         TFunction(<<"n">>, TBinary(Call2("g", TVar("n"), TInt(1)), "Add", TInt(1))),
    TLet("h",
         TFunction(<<"x">>, Call1("f", TInt(5))),
         TBinary(Call1("f", TInt(5)), "Add", Call1("h", TInt(1))))))

\* let id = fn (a) => { a };
\* let k = fn (x) => { let y = x + 1; id(y) };
\* k(1)
LetTail ==
    TLet("id", TFunction(<<"a">>, TVar("a")),
    TLet("k",
         TFunction(<<"x">>,
             TLet("y", TBinary(TVar("x"), "Add", TInt(1)), Call1("id", TVar("y")))),
         Call1("k", TInt(1))))

\* let g = fn (a) => { a };
\* let x = g(1);
\* let f = fn (n) => { print(n) / 0 + print(g(2)) };
\* let y = f(7);
\* print(y)
ErrorInCall ==
    TLet("g", TFunction(<<"a">>, TVar("a")),
    TLet("x", Call1("g", TInt(1)),
    TLet("f",
         TFunction(<<"n">>,
             TBinary(TBinary(TPrint(TVar("n")), "Div", TInt(0)), "Add",
                     TPrint(Call1("g", TInt(2))))),
    TLet("y", Call1("f", TInt(7)), TPrint(TVar("y"))))))

\* the deepest recursion the programs are run to
MaxDepth == 4

RECURSIVE FibValue(_)
FibValue(n) == IF n < 2 THEN n ELSE FibValue(n - 1) + FibValue(n - 2)

Program(term, expected) == [term |-> term, expected |-> expected]

\* programs whose call or tail call is of a value that is not a function, or
\* of a function of another arity
CallErrorPrograms ==
    \* let x = 1; x(2)
    <<Program(
          TLet("x", TInt(1), Call1("x", TInt(2))),
          <<>>),
    \* let f = fn (a, b) => { a }; f(1)
      Program(
          TLet("f", TFunction(<<"a", "b">>, TVar("a")), Call1("f", TInt(1))),
          <<>>),
    \* let k = fn (x) => { x(1) }; k(5)
      Program(
          TLet("k", TFunction(<<"x">>, TCall(TVar("x"), <<TInt(1)>>)), Call1("k", TInt(5))),
          <<>>),
    \* let f = fn (a, b) => { a }; let k = fn (x) => { f(x) }; k(5)
      Program(
          TLet("f", TFunction(<<"a", "b">>, TVar("a")),
          TLet("k", TFunction(<<"x">>, Call1("f", TVar("x"))), Call1("k", TInt(5)))),
          <<>>)>>

\* programs with lets in if branches, a tail call and a closure made after
\* them, curried functions, a captured name that is also a global, an
\* unknown name, a let that shadows a parameter, and a recursive function
\* defined by a let of a function
SlotPrograms ==
    \* let k = fn (x) => { x };
    \* let f = fn (c) => { if (c) { let a = 1; a } else { k(2) } };
    \* let g = fn (x, y) => { f(false) + y }; g(0, 10)
    <<Program(
          TLet("k", TFunction(<<"x">>, TVar("x")),
          TLet("f",
          TFunction(<<"c">>,
          TIf(TVar("c"),
          TLet("a", TInt(1), TVar("a")),
          Call1("k", TInt(2)))),
          TLet("g",
          TFunction(<<"x", "y">>, TBinary(Call1("f", TBool(FALSE)), "Add", TVar("y"))),
          Call2("g", TInt(0), TInt(10))))),
          <<Integer(12)>>),
    \* let f = fn (c) => { if (c) { let a = 1; a } else { let b = 2; b } }; f(false)
      Program(
          TLet("f",
          TFunction(<<"c">>,
          TIf(TVar("c"),
          TLet("a", TInt(1), TVar("a")),
          TLet("b", TInt(2), TVar("b")))),
          Call1("f", TBool(FALSE))),
          <<Integer(2)>>),
    \* let f = fn (c) => { if (c) { let a = 1; a }
    \*                     else { let b = 2; let h = fn () => { b }; h() } }; f(false)
      Program(
          TLet("f",
          TFunction(<<"c">>,
          TIf(TVar("c"),
          TLet("a", TInt(1), TVar("a")),
          TLet("b", TInt(2),
          TLet("h", TFunction(<<>>, TVar("b")),
          TCall(TVar("h"), <<>>))))),
          Call1("f", TBool(FALSE))),
          <<Integer(2)>>),
    \* let add = fn (x) => { fn (y) => { fn (z) => { x + y + z } } }; add(1)(2)(3)
      Program(
          TLet("add",
          TFunction(<<"x">>,
          TFunction(<<"y">>,
          TFunction(<<"z">>,
          TBinary(TBinary(TVar("x"), "Add", TVar("y")), "Add", TVar("z"))))),
          TCall(TCall(Call1("add", TInt(1)), <<TInt(2)>>), <<TInt(3)>>)),
          <<Integer(6)>>),
    \* let x = 100; let add = fn (x) => { fn (y) => { x + y } }; add(1)(2)
      Program(
          TLet("x", TInt(100),
          TLet("add",
          TFunction(<<"x">>, TFunction(<<"y">>, TBinary(TVar("x"), "Add", TVar("y")))),
          TCall(Call1("add", TInt(1)), <<TInt(2)>>))),
          <<Integer(3)>>),
    \* let add = fn (x) => { fn (y) => { x + q } }; add(1)(2)
      Program(
          TLet("add",
          TFunction(<<"x">>, TFunction(<<"y">>, TBinary(TVar("x"), "Add", TVar("q")))),
          TCall(Call1("add", TInt(1)), <<TInt(2)>>)),
          <<>>),
    \* let f = fn (x) => { let x = x + 1; x }; f(1)
      Program(
          TLet("f",
               TFunction(<<"x">>,
                   TLet("x", TBinary(TVar("x"), "Add", TInt(1)), TVar("x"))),
               Call1("f", TInt(1))),
          <<Integer(2)>>),
    \* let f = fn (n) => { let h = fn (k) => { if (k == 0) { 0 } else { h(k - 1) } };
    \*                     h(n) }; f(2)
      Program(
          TLet("f",
               TFunction(<<"n">>,
                   TLet("h",
                        TFunction(<<"k">>,
                            TIf(TBinary(TVar("k"), "Eq", TInt(0)),
                                TInt(0),
                                Call1("h", TBinary(TVar("k"), "Sub", TInt(1))))),
                        Call1("h", TVar("n")))),
               Call1("f", TInt(2))),
          <<Integer(0)>>)>>

Programs ==
    <<Program(Algebra, <<Integer(43)>>),
      Program(ByZero("Div"), <<>>),
      Program(ByZero("Rem"), <<>>),
      Program(IfWorks, <<String(Foo \o Bar)>>),
      Program(GlobalsWork, <<Tuple(Bool(TRUE), Integer(42))>>),
      Program(Projections, <<Bool(TRUE)>>),
      Program(Sum(MaxDepth), <<Integer((MaxDepth * (MaxDepth + 1)) \div 2)>>),
      Program(Fibonacci(MaxDepth), <<Integer(FibValue(MaxDepth))>>),
      Program(Combination(MaxDepth, 2), <<Integer((MaxDepth * (MaxDepth - 1)) \div 2)>>),
      Program(Redefinition, <<Integer(2)>>),
      Program(BranchLet, <<Integer(12)>>),
      Program(InnerCall, <<Integer(12)>>),
      Program(PrintThenCall, <<Integer(20)>>),
      Program(Loop(MaxDepth), <<Integer(0)>>),
      Program(EvenOdd(MaxDepth), <<Bool(MaxDepth % 2 = 0)>>),
      Program(TailAfterRecord, <<Integer(12)>>),
      Program(LetTail, <<Integer(2)>>),
      Program(ErrorInCall, <<>>)>>
    \o CallErrorPrograms \o SlotPrograms

(***************************************************************************)
(* Vm::new, Vm::interpret and the specification.                           *)
(***************************************************************************)
NoHistory == [op |-> "new", hit |-> FALSE, recorded |-> <<>>, callers |-> <<>>, ce_depth |-> 0,
              ce_printed |-> FALSE]

\* run's initial_frame
InitialFrame == [bytecode |-> -1, closure |-> Bool(FALSE), instruction_pointer |-> 0,
                 frame_index |-> 0]

\* Vm::new
Init ==
    /\ pc = "new"
    /\ program = 0
    /\ memo_on = TRUE
    /\ baseline = <<>>
    /\ bytecode = <<>>
    /\ call_frames = <<>>
    /\ constants = <<>>
    /\ current_execution = <<>>
    /\ functions = <<>>
    /\ globals = <<>>
    /\ identifiers = <<>>
    /\ memoization = <<>>
    /\ pure = TRUE
    /\ stack = <<>>
    /\ instruction_pointer = 0
    /\ frame_index = 0
    /\ environment = <<>>
    /\ skip = 0
    /\ error = ""
    /\ output = <<>>
    /\ history = NoHistory
    /\ pool_result = <<>>
    /\ filled = <<0, 0>>

\* Vm::interpret up to the first iteration of run's outer loop, on program p.
Interpret ==
    /\ pc = "new"
    /\ \E p \in 1..Len(Programs) :
          LET c == CompileProgram(Programs[p].term) IN
          /\ program' = p
          /\ constants' = c.constants
          /\ identifiers' = c.identifiers
          /\ functions' = c.functions
          /\ IF c.ok
             THEN /\ bytecode' = c.bytecode
                  /\ call_frames' = <<InitialFrame>>
                  /\ pc' = "select"
                  /\ error' = ""
                  /\ history' = [NoHistory EXCEPT !.op = "interpret", !.recorded = <<<<>>>>,
                                  !.callers = <<[below |-> <<>>, resume |-> 0, tail |-> FALSE,
                                              arguments |-> <<>>, entered |-> <<>>]>>]
             ELSE /\ bytecode' = <<>>
                  /\ call_frames' = <<>>
                  /\ pc' = "error"
                  /\ error' = c.message
                  /\ history' = [NoHistory EXCEPT !.op = "interpret"]
    /\ UNCHANGED <<memo_on, baseline, current_execution, globals, memoization, pure, stack,
                   instruction_pointer, frame_index, environment, skip, output, pool_result,
                   filled>>

\* The reference run: the same program interpreted again by a fresh Vm whose
\* Return never records a memoization entry, so that every Call and TailCall
\* executes the callee body.  The outcome of the run before is kept in baseline.
Rerun ==
    /\ Ended
    /\ memo_on
    /\ memo_on' = FALSE
    /\ baseline' = <<[failed |-> pc # "done", value |-> Outcome, output |-> output]>>
    /\ call_frames' = IF bytecode = <<>> THEN <<>> ELSE <<InitialFrame>>
    /\ pc' = IF bytecode = <<>> THEN "error" ELSE "select"
    /\ error' = IF bytecode = <<>> THEN error ELSE ""
    /\ current_execution' = <<>>
    /\ globals' = <<>>
    /\ memoization' = <<>>
    /\ pure' = TRUE
    /\ stack' = <<>>
    /\ instruction_pointer' = 0
    /\ frame_index' = 0
    /\ environment' = <<>>
    /\ skip' = 0
    /\ output' = <<>>
    /\ history' = [NoHistory EXCEPT !.op = "interpret", !.recorded = <<<<>>>>,
                                  !.callers = <<[below |-> <<>>, resume |-> 0, tail |-> FALSE,
                                              arguments |-> <<>>, entered |-> <<>>]>>]
    /\ UNCHANGED <<compiled, pool_result>>

Next ==
    \/ Interpret
    \/ Rerun
    \/ SelectFrame
    \/ Finish
    \/ Skipped
    \/ DoConstant
    \/ DoTrueFalse
    \/ DoAdd
    \/ DoIntegerOp
    \/ DoDivRem
    \/ DoEqNeq
    \/ DoAndOr
    \/ DoTuple
    \/ DoFirstSecond
    \/ DoPrint
    \/ DoGlobalSet
    \/ DoGlobalGet
    \/ DoLocalGet
    \/ DoIf
    \/ DoJump
    \/ DoClosure
    \/ DoCall
    \/ DoTailCall
    \/ DoReturn

Spec == Init /\ [][Next]_vars

(***************************************************************************)
(* The pools on their own: create_constant and create_identifier called in *)
(* any order, on pools that start nearly empty, one entry short of full or *)
(* full.  A pool of n distinct entries is what compiling n distinct        *)
(* literals (or names) leaves.  The n entries a pool starts with are kept  *)
(* in the state by their number, filled, and the entries added since in    *)
(* constants and identifiers: the pools the calls see are ConstantPool and *)
(* IdentifierPool.                                                         *)
(***************************************************************************)
FilledConstants(n) == [i \in 1..n |-> Integer(i)]

FilledIdentifiers(n) == [i \in 1..n |-> ToString(i)]

ConstantPool == FilledConstants(filled[1]) \o constants

IdentifierPool == FilledIdentifiers(filled[2]) \o identifiers

\* the entries of `pool` after its first n
Added(pool, n) == SubSeq(pool, n + 1, Len(pool))

\* Integer(1) and "1" are entries of the filled pools, String(Foo) and "x" are not
PoolValues == {Integer(1), String(Foo)}

PoolNames == {"1", "x"}

\* <<entries of constants, entries of identifiers>> before the calls
PoolSizes ==
    ({0, 1, 2} \X {0, 1, 2}) \cup {<<U16Max - 1, U16Max - 1>>, <<U16Max, U16Max>>}

PoolInit ==
    /\ pc = "pool"
    /\ program = 0
    /\ memo_on = TRUE
    /\ baseline = <<>>
    /\ bytecode = <<>>
    /\ call_frames = <<>>
    /\ filled \in PoolSizes
    /\ constants = <<>>
    /\ identifiers = <<>>
    /\ current_execution = <<>>
    /\ functions = <<>>
    /\ globals = <<>>
    /\ memoization = <<>>
    /\ pure = TRUE
    /\ stack = <<>>
    /\ instruction_pointer = 0
    /\ frame_index = 0
    /\ environment = <<>>
    /\ skip = 0
    /\ error = ""
    /\ output = <<>>
    /\ history = NoHistory
    /\ pool_result = <<>>

PoolCall(call, argument, r) ==
    <<[call |-> call, argument |-> argument, ok |-> r.ok, index |-> r.index]>>

CreateConstant ==
    /\ pc = "pool"
    /\ \E value \in PoolValues :
          LET r == create_constant(ConstantPool, value) IN
          /\ constants' = Added(r.pool, filled[1])
          /\ pool_result' = PoolCall("create_constant", <<value>>, r)
    /\ UNCHANGED <<pc, program, memo_on, baseline, bytecode, call_frames, current_execution,
                   functions, globals, identifiers, memoization, pure, stack,
                   instruction_pointer, frame_index, environment, skip, error, output,
                   history, filled>>

CreateIdentifier ==
    /\ pc = "pool"
    /\ \E identifier \in PoolNames :
          LET r == create_identifier(IdentifierPool, identifier) IN
          /\ identifiers' = Added(r.pool, filled[2])
          /\ pool_result' = PoolCall("create_identifier", <<identifier>>, r)
    /\ UNCHANGED <<pc, program, memo_on, baseline, bytecode, call_frames, current_execution,
                   functions, globals, constants, memoization, pure, stack,
                   instruction_pointer, frame_index, environment, skip, error, output,
                   history, filled>>

PoolNext == CreateConstant \/ CreateIdentifier

SpecPool == PoolInit /\ [][PoolNext]_vars


(***************************************************************************)
(* The operators on their own: interpret run on every program that applies *)
(* one operator to operands drawn from OperandTerms, which has a term for  *)
(* every kind of value and the integers at the ends of the i32 range.  In  *)
(* this specification `program` holds the term itself.                     *)
(***************************************************************************)
Identity == TFunction(<<"a">>, TVar("a"))

OperandTerms ==
    {TInt(0), TInt(1), TInt(-1), TInt(2), TInt(-7), TInt(I32Max), TInt(I32Min),
     TStr(Foo), TStr(<<>>), TBool(TRUE), TBool(FALSE),
     TTuple(TInt(1), TStr(Bar)), Identity}

BinaryOps ==
    {"Add", "Sub", "Mul", "Div", "Rem", "Eq", "Neq", "Gt", "Lt", "Gte", "Lte", "And", "Or"}

\* lhs op rhs
BinaryPrograms == {TBinary(lhs, op, rhs) : lhs \in OperandTerms, op \in BinaryOps,
                                           rhs \in OperandTerms}

\* print(lhs) op print(rhs), and an operand whose evaluation is an error
PrintedPrograms ==
    {TBinary(TPrint(lhs), op, TPrint(rhs)) : lhs \in OperandTerms, op \in {"And", "Or"},
                                             rhs \in OperandTerms}
    \cup {TBinary(TPrint(lhs), op, TPrint(TFirst(TInt(1)))) : lhs \in {TBool(TRUE), TBool(FALSE)},
                                                              op \in {"And", "Or"}}

\* first((a, b)), second((a, b)), first(a), second(a), print(first(a))
ProjectionPrograms ==
    {TFirst(TTuple(a, b)) : a \in OperandTerms, b \in OperandTerms}
    \cup {TSecond(TTuple(a, b)) : a \in OperandTerms, b \in OperandTerms}
    \cup {TFirst(a) : a \in OperandTerms}
    \cup {TSecond(a) : a \in OperandTerms}
    \cup {TPrint(TFirst(a)) : a \in OperandTerms}

\* let f = fn (a) => { a }; f op f, and (f, 1) op (f, 1)
SameClosurePrograms ==
    {TLet("f", Identity, TBinary(l, op, l)) :
         l \in {TVar("f"), TTuple(TVar("f"), TInt(1))}, op \in {"Eq", "Neq"}}

BranchTerms ==
    {TInt(7),
     TPrint(TStr(Foo)),
     TIf(TBool(TRUE), TPrint(TInt(1)), TPrint(TInt(2))),
     TIf(TBool(FALSE), TPrint(TInt(3)), TIf(TBool(TRUE), TPrint(TInt(4)), TPrint(TInt(5))))}

\* if (c) { a } else { b }, alone and as the left operand of an addition
IfPrograms ==
    {TIf(c, a, b) : c \in OperandTerms, a \in BranchTerms, b \in BranchTerms}
    \cup {TBinary(TIf(c, a, b), "Add", TPrint(TInt(1))) :
              c \in {TBool(TRUE), TBool(FALSE)}, a \in BranchTerms, b \in BranchTerms}

\* fn (c) => { if (c) { a } else { b } }
FunctionPrograms == {TFunction(<<"c">>, TIf(TVar("c"), a, b)) : a \in BranchTerms, b \in BranchTerms}

OpsPrograms ==
    BinaryPrograms \cup PrintedPrograms \cup ProjectionPrograms \cup SameClosurePrograms
    \cup IfPrograms \cup FunctionPrograms

\* Vm::new, with the program interpret is about to be given
OpsInit ==
    /\ pc = "new"
    /\ program \in OpsPrograms
    /\ memo_on = TRUE
    /\ baseline = <<>>
    /\ bytecode = <<>>
    /\ call_frames = <<>>
    /\ constants = <<>>
    /\ current_execution = <<>>
    /\ functions = <<>>
    /\ globals = <<>>
    /\ identifiers = <<>>
    /\ memoization = <<>>
    /\ pure = TRUE
    /\ stack = <<>>
    /\ instruction_pointer = 0
    /\ frame_index = 0
    /\ environment = <<>>
    /\ skip = 0
    /\ error = ""
    /\ output = <<>>
    /\ history = NoHistory
    /\ pool_result = <<>>
    /\ filled = <<0, 0>>

\* Vm::interpret up to the first iteration of run's outer loop, on `program`
InterpretProgram ==
    /\ pc = "new"
    /\ LET c == CompileProgram(program) IN
       /\ constants' = c.constants
       /\ identifiers' = c.identifiers
       /\ functions' = c.functions
       /\ IF c.ok
          THEN /\ bytecode' = c.bytecode
               /\ call_frames' = <<InitialFrame>>
               /\ pc' = "select"
               /\ error' = ""
               /\ history' = [NoHistory EXCEPT !.op = "interpret", !.recorded = <<<<>>>>,
                                  !.callers = <<[below |-> <<>>, resume |-> 0, tail |-> FALSE,
                                              arguments |-> <<>>, entered |-> <<>>]>>]
          ELSE /\ bytecode' = <<>>
               /\ call_frames' = <<>>
               /\ pc' = "error"
               /\ error' = c.message
               /\ history' = [NoHistory EXCEPT !.op = "interpret"]
    /\ UNCHANGED <<program, memo_on, baseline, current_execution, globals, memoization, pure,
                   stack, instruction_pointer, frame_index, environment, skip, output,
                   pool_result, filled>>

OpsNext ==
    \/ InterpretProgram
    \/ SelectFrame
    \/ Finish
    \/ Skipped
    \/ DoConstant
    \/ DoTrueFalse
    \/ DoAdd
    \/ DoIntegerOp
    \/ DoDivRem
    \/ DoEqNeq
    \/ DoAndOr
    \/ DoTuple
    \/ DoFirstSecond
    \/ DoPrint
    \/ DoGlobalSet
    \/ DoGlobalGet
    \/ DoIf
    \/ DoJump
    \/ DoClosure
    \/ DoReturn

SpecOps == OpsInit /\ [][OpsNext]_vars

(***************************************************************************)
(* Properties.                                                             *)
(***************************************************************************)
\* the global names set so far are pairwise different
NoGlobalSetTwice ==
    \A i, j \in 1..Len(globals) : globals[i].name = globals[j].name => i = j

\* C1 - Stack balance: when a program that denotes the value v has run to the
\* end without error (the call-frame stack is empty), the operand stack holds
\* exactly one element and it is v.  Stated for the runs that set no global
\* twice and record no memoization entry, so that a violation is one of the
\* stack discipline and not of global lookup or of memoization.
StackBalance ==
    (pc = "done" /\ NoGlobalSetTwice /\ memoization = <<>>
        /\ Programs[program].expected # <<>>) =>
        /\ call_frames = <<>>
        /\ stack = Programs[program].expected

\* C2 - Memoization is transparent: the run of a program that never records a
\* memoization entry ends as the run of the same program with the table in
\* use ended: both fail or both return, and they return the same final value.
MemoizationTransparent ==
    (~memo_on /\ Ended) =>
        /\ baseline[1].failed = (pc # "done")
        /\ baseline[1].value = Outcome

OnlyPureExecutionsRecorded ==
    [][Len(memoization') > Len(memoization) => ~history.ce_printed]_vars


\* the programs whose only recursive calls are in tail position
TailRecursive ==
    {p \in 1..Len(Programs) : Programs[p].term \in {Loop(MaxDepth), EvenOdd(MaxDepth)}}

RECURSIVE CallTerms(_, _, _)
RECURSIVE CallTermsOfArguments(_, _)
CallTermsOfArguments(arguments, wanted) ==
    IF arguments = <<>> THEN 0
    ELSE CallTerms(Head(arguments), FALSE, wanted) + CallTermsOfArguments(Tail(arguments), wanted)

\* The number of Call terms of `term` that are in Tail position (wanted = TRUE)
\* or in another position (wanted = FALSE), where `tail` tells whether `term`
\* itself is in Tail position: the root of a function body is; then, otherwise
\* and the next of a let are if their term is; no other sub-term is.
CallTerms(term, tail, wanted) ==
    CASE term.kind \in {"Int", "Bool", "Str", "Var", "Error"} -> 0
      [] term.kind \in {"First", "Second", "Print"} -> CallTerms(term.value, FALSE, wanted)
      [] term.kind = "Tuple" ->
            CallTerms(term.first, FALSE, wanted) + CallTerms(term.second, FALSE, wanted)
      [] term.kind = "Binary" ->
            CallTerms(term.lhs, FALSE, wanted) + CallTerms(term.rhs, FALSE, wanted)
      [] term.kind = "If" ->
            CallTerms(term.condition, FALSE, wanted)
            + CallTerms(term.then, tail, wanted) + CallTerms(term.otherwise, tail, wanted)
      [] term.kind = "Let" ->
            CallTerms(term.value, FALSE, wanted) + CallTerms(term.next, tail, wanted)
      [] term.kind = "Function" -> CallTerms(term.value, TRUE, wanted)
      [] term.kind = "Call" ->
            (IF tail = wanted THEN 1 ELSE 0)
            + CallTerms(term.callee, FALSE, wanted)
            + CallTermsOfArguments(term.arguments, wanted)

InstructionsOf(code, op) == Cardinality({i \in 1..Len(code) : code[i].op = op})

RECURSIVE InstructionsOfFunctions(_, _)
InstructionsOfFunctions(table, op) ==
    IF table = <<>> THEN 0
    ELSE InstructionsOf(Head(table).bytecode, op) + InstructionsOfFunctions(Tail(table), op)

\* the number of `op` instructions in the top-level stream and every function body
Emitted(op) == InstructionsOf(bytecode, op) + InstructionsOfFunctions(functions, op)

GlobalName == At(identifiers, Current.a)

\* the value of the most recent GlobalSet of `name`
LastSet(name) ==
    globals[CHOOSE i \in 1..Len(globals) :
                /\ globals[i].name = name
                /\ \A j \in (i + 1)..Len(globals) : globals[j].name # name].value

\* C7 - Global redefinition is last-write-wins: a GlobalGet of a name that is
\* not in the current frame's captured list and has been set pushes the value
\* of the most recent GlobalSet of that name.
LastWriteWins ==
    [][(/\ Dispatching({"GlobalGet"})
        /\ Find(environment, GlobalName) = <<>>
        /\ \E i \in 1..Len(globals) : globals[i].name = GlobalName)
       => stack' = Append(stack, LastSet(GlobalName))]_vars


\* the call whose result pool_result holds
LastCall == pool_result[1]

\* a step that lengthens the pool appends a value the pool did not hold
AppendsOnlyNew ==
    Len(constants') > Len(constants) =>
        /\ Front(constants') = constants
        /\ ConstantPosition(ConstantPool, Top(constants')) < 0

\* create_constant of a value the pool holds returns the index of its first
\* occurrence and leaves the pool unchanged
ExistingIsShared ==
    (/\ LastCall'.call = "create_constant"
     /\ ConstantPosition(ConstantPool, LastCall'.argument[1]) >= 0)
    => /\ LastCall'.ok
       /\ LastCall'.index = ConstantPosition(ConstantPool, LastCall'.argument[1])
       /\ constants' = constants

\* C8 - Constant dedup: create_constant of a value already in the pool,
\* whatever the size of the pool (65,535 entries included), returns the index
\* of its first occurrence and leaves the pool unchanged, so that no step
\* gives the pool a second copy of a value.
ConstantDedup == [][AppendsOnlyNew /\ ExistingIsShared]_vars

ConstantPoolLen == filled[1] + Len(constants)

IdentifierPoolLen == filled[2] + Len(identifiers)

PoolBounded == ConstantPoolLen <= U16Max /\ IdentifierPoolLen <= U16Max

\* the length of the pool the call worked on
PoolLen(call) == IF call = "create_constant" THEN ConstantPoolLen ELSE IdentifierPoolLen

\* every returned index is a position of the pool
IndexValid ==
    (pool_result # <<>> /\ LastCall.ok) =>
        /\ 0 <= LastCall.index
        /\ LastCall.index < PoolLen(LastCall.call)
        /\ LastCall.index <= U16Max

\* whether the argument of a call is an entry of the pool the call works on
Present(call, argument) ==
    IF call = "create_constant" THEN ConstantPosition(ConstantPool, argument) >= 0
    ELSE Position(IdentifierPool, argument) >= 0

\* a call with an argument that is not in its pool, which is full, is an Err
\* and changes neither pool
FullPoolRejects ==
    (/\ PoolLen(LastCall'.call) = U16Max
     /\ ~Present(LastCall'.call, LastCall'.argument[1]))
    => /\ ~LastCall'.ok
       /\ constants' = constants
       /\ identifiers' = identifiers

\* C9 - Pool bounds: after any sequence of create_constant and
\* create_identifier calls each pool holds at most 65,535 entries, every
\* returned index is a position of its pool, and a call that would add a new
\* entry to a full pool returns an error and leaves the pool unchanged.
PoolBounds == [](PoolBounded /\ IndexValid) /\ [][FullPoolRejects]_vars

\* a new value has been refused by the full constant pool
PoolBoundsWitness ==
    /\ pool_result # <<>>
    /\ LastCall.call = "create_constant"
    /\ ~LastCall.ok
    /\ ConstantPoolLen = U16Max
    /\ ConstantPosition(ConstantPool, LastCall.argument[1]) < 0

\* the operands a Div or Rem about to execute pops
Operands == pop_operands(stack)

\* C10 - Div and Rem of two Ints whose right operand is 0 raise a runtime
\* error, with one message for division and another for remainder: the
\* operands are popped, no value is pushed, and interpret returns the error.
ByZeroRaises ==
    [][(/\ Dispatching({"Div", "Rem"})
        /\ Operands.ok
        /\ BothIntegers(Operands)
        /\ Operands.rhs.i = 0)
       => /\ pc' = "error"
          /\ error' = (IF Current.op = "Div" THEN "Attempted to divide by zero"
                       ELSE "Attempted to take remainder by zero")
          /\ stack' = Operands.rest
          /\ Ended'
          /\ Outcome' = <<>>]_vars

\* a remainder by zero has ended the evaluation with its error
ByZeroRaisesWitness ==
    /\ pc = "error"
    /\ history.op = "Rem"
    /\ error = "Attempted to take remainder by zero"
    /\ output = <<>>

\* r is zero or has the sign of lhs, and is smaller than rhs in absolute value
RemainderInRange(lhs, rhs, r) ==
    /\ (lhs >= 0 => r >= 0) /\ (lhs <= 0 => r <= 0)
    /\ (rhs > 0 => -rhs < r /\ r < rhs)
    /\ (rhs < 0 => rhs < r /\ rhs < -r)

\* q is lhs / rhs truncated toward zero: lhs = q * rhs + r for a remainder r
\* in range
IsQuotient(lhs, rhs, q) ==
    /\ ~Mul(q, rhs).o
    /\ ~SubOverflows(lhs, Mul(q, rhs).v)
    /\ RemainderInRange(lhs, rhs, lhs - Mul(q, rhs).v)

\* r is the remainder matching the truncated quotient: in range, and lhs - r
\* is a multiple of rhs
IsRemainder(lhs, rhs, r) ==
    /\ RemainderInRange(lhs, rhs, r)
    /\ IF rhs > 0 THEN (lhs - r) % rhs = 0
       ELSE IF rhs = I32Min THEN lhs - r \in {0, I32Min}
       ELSE (lhs - r) % (-rhs) = 0

\* C11 - For every pair of 32-bit Int operands whose right operand is not 0,
\* Div pushes the quotient truncated toward zero and Rem pushes the matching
\* remainder, without error: a right operand of 0 is the only input on which
\* Div or Rem of two Ints errors.
DivRemTotal ==
    [][(/\ Dispatching({"Div", "Rem"})
        /\ Operands.ok
        /\ BothIntegers(Operands)
        /\ Operands.rhs.i # 0)
       => /\ pc' = "dispatch"
          /\ Len(stack') = Len(Operands.rest) + 1
          /\ Front(stack') = Operands.rest
          /\ Top(stack').kind = "Integer"
          /\ IF Current.op = "Div"
             THEN IsQuotient(Operands.lhs.i, Operands.rhs.i, Top(stack').i)
             ELSE IsRemainder(Operands.lhs.i, Operands.rhs.i, Top(stack').i)]_vars

\* an Add is about to execute on two operands
AddStep == Dispatching({"Add"}) /\ Operands.ok

RECURSIVE NegatedValue(_)
\* minus the number the digits ds write in base 10
NegatedValue(ds) ==
    IF ds = <<>> THEN 0
    ELSE NegatedValue(Front(ds)) * 10 - ((CHOOSE k \in 1..10 : Digits[k] = Top(ds)) - 1)

\* chars writes i in base 10: a minus sign for a negative i, then digits
\* without a leading zero
IsDecimal(chars, i) ==
    LET ds == IF i < 0 /\ chars # <<>> THEN Tail(chars) ELSE chars IN
    /\ i < 0 => chars # <<>> /\ chars[1] = "-"
    /\ ds # <<>>
    /\ Len(ds) <= 10
    /\ \A k \in 1..Len(ds) : \E j \in 1..10 : Digits[j] = ds[k]
    /\ Len(ds) > 1 => ds[1] # "0"
    /\ NegatedValue(ds) = (IF i < 0 THEN i ELSE -i)

\* the step continues with value pushed in place of the two operands
Pushes(value) == pc' = "dispatch" /\ stack' = Append(Operands.rest, value)

\* the step pushes the integer lhs + rhs
PushesSum ==
    /\ pc' = "dispatch"
    /\ Len(stack') = Len(Operands.rest) + 1
    /\ Front(stack') = Operands.rest
    /\ Top(stack').kind = "Integer"
    /\ ~SubOverflows(Top(stack').i, Operands.lhs.i)
    /\ Top(stack').i - Operands.lhs.i = Operands.rhs.i

\* the step pushes the String made of the left operand then the right
\* operand, an Integer written in base 10
PushesConcatenation ==
    /\ pc' = "dispatch"
    /\ Len(stack') = Len(Operands.rest) + 1
    /\ Front(stack') = Operands.rest
    /\ Top(stack').kind = "String"
    /\ LET p == Top(stack').s
           lhs == Operands.lhs
           rhs == Operands.rhs
       IN CASE lhs.kind = "String" /\ rhs.kind = "String" -> p = lhs.s \o rhs.s
            [] lhs.kind = "String" /\ rhs.kind = "Integer" ->
                   /\ Len(p) >= Len(lhs.s)
                   /\ SubSeq(p, 1, Len(lhs.s)) = lhs.s
                   /\ IsDecimal(SubSeq(p, Len(lhs.s) + 1, Len(p)), rhs.i)
            [] lhs.kind = "Integer" /\ rhs.kind = "String" ->
                   /\ Len(p) >= Len(rhs.s)
                   /\ SubSeq(p, Len(p) - Len(rhs.s) + 1, Len(p)) = rhs.s
                   /\ IsDecimal(SubSeq(p, 1, Len(p) - Len(rhs.s)), lhs.i)

\* one operand is a String and the other a String or an Integer
Concatenable(o) ==
    /\ {o.lhs.kind, o.rhs.kind} \subseteq {"String", "Integer"}
    /\ "String" \in {o.lhs.kind, o.rhs.kind}

\* Add pushes the integer sum for (Int,Int), whatever the operands; it pushes
\* the concatenation for (Str,Str), (Str,Int) and (Int,Str); every other
\* combination is an error.
AddAlwaysSums ==
    [][AddStep
       => IF BothIntegers(Operands) THEN PushesSum
          ELSE IF Concatenable(Operands) THEN PushesConcatenation
          ELSE pc' = "error" /\ error' = "Wrong types for add."]_vars

\* C12 - Add pushes the integer sum for (Int,Int) when the sum is a 32-bit
\* Int; when it is not, the build with overflow checks panics and the build
\* without pushes the sum modulo 2^32.  For (Str,Str), (Str,Int) and (Int,Str)
\* it pushes the concatenation of the left operand then the right operand, an
\* Int being written in base 10; every other operand combination (any Bool,
\* Tuple or Closure operand) is an error.
AddContract ==
    [][AddStep
       => IF BothIntegers(Operands)
          THEN IF AddOverflows(Operands.lhs.i, Operands.rhs.i)
               THEN \/ pc' = "panic"
                    \/ Pushes(Integer(WrapAdd(Operands.lhs.i, Operands.rhs.i)))
               ELSE PushesSum
          ELSE IF Concatenable(Operands) THEN PushesConcatenation
          ELSE pc' = "error" /\ error' = "Wrong types for add."]_vars

\* i32::MAX + 1 has wrapped to i32::MIN
AddContractWitness ==
    /\ program = TBinary(TInt(I32Max), "Add", TInt(1))
    /\ history.op = "Add"
    /\ pc = "dispatch"
    /\ stack = <<Integer(I32Min)>>

\* an Eq or Neq is about to execute on two operands
EqStep == Dispatching({"Eq", "Neq"}) /\ Operands.ok

RECURSIVE ClosureFree(_)
\* v is not a closure and no component of v is one
ClosureFree(v) ==
    IF v.kind = "Tuple" THEN ClosureFree(v.first) /\ ClosureFree(v.second)
    ELSE v.kind # "Closure"

ErringOperand == TPrint(TFirst(TInt(1)))

\* C14 - And and Or are not short-circuited: when the operator is about to
\* execute both operand terms have been evaluated (both their Prints have
\* written, whatever the left operand is), and an operand whose evaluation is
\* an error ends the run with that error before the operator executes.  With
\* two Bool operands the operator pushes their conjunction / disjunction, and
\* with any non-Bool operand it is an error whatever the other operand is.
NotShortCircuited ==
    /\ []((program \in PrintedPrograms /\ Dispatching({"And", "Or"}))
          => /\ Operands.ok
             /\ output = <<Display(Operands.lhs), Display(Operands.rhs)>>)
    /\ []((program \in PrintedPrograms /\ program.rhs = ErringOperand)
          => /\ ~Dispatching({"And", "Or"})
             /\ Ended => /\ pc = "error"
                         /\ error = "Tried to compute first of a non tuple type."
                         /\ output = <<Display(Bool(program.lhs.value.value))>>)
    /\ [][(Dispatching({"And", "Or"}) /\ Operands.ok)
          => IF Operands.lhs.kind = "Bool" /\ Operands.rhs.kind = "Bool"
             THEN Pushes(Bool(IF Current.op = "And"
                              THEN Operands.lhs.b /\ Operands.rhs.b
                              ELSE Operands.lhs.b \/ Operands.rhs.b))
             ELSE pc' = "error" /\ stack' = Operands.rest /\ Outcome' = <<>>]_vars

\* false && true has printed both operands and then given false
NotShortCircuitedWitness ==
    /\ program = TBinary(TPrint(TBool(FALSE)), "And", TPrint(TBool(TRUE)))
    /\ history.op = "And"
    /\ pc = "dispatch"
    /\ output = <<Display(Bool(FALSE)), Display(Bool(TRUE))>>
    /\ stack = <<Bool(FALSE)>>

RECURSIVE TermValue(_)
\* the value an operand term denotes, as interpret returns it
TermValue(t) ==
    CASE t.kind = "Int" -> Integer(t.value)
      [] t.kind = "Str" -> String(t.value)
      [] t.kind = "Bool" -> Bool(t.value)
      [] t.kind = "Tuple" -> [kind |-> "Tuple", first |-> TermValue(t.first),
                              second |-> TermValue(t.second)]
      [] t.kind = "Function" -> [kind |-> "Closure"]

\* the program is a projection of a tuple term
ProjectsTuple == program.kind \in {"First", "Second"} /\ program.value.kind = "Tuple"

\* C15 - Tuple projection round-trip: for all values a and b, First applied
\* to the value built by Tuple from a (pushed first) and b (pushed second)
\* yields a, and Second yields b; First or Second applied to any non-tuple
\* value is an error.
ProjectionRoundTrip ==
    /\ []((program \in ProjectionPrograms /\ ProjectsTuple /\ Ended)
          => /\ pc = "done"
             /\ Outcome = <<TermValue(IF program.kind = "First"
                                      THEN program.value.first
                                      ELSE program.value.second)>>)
    /\ [][(Dispatching({"First", "Second"}) /\ stack # <<>>)
          => IF Top(stack).kind = "Tuple"
             THEN /\ pc' = "dispatch"
                  /\ stack' = Append(Front(stack), IF Current.op = "First"
                                                   THEN Top(stack).first
                                                   ELSE Top(stack).second)
             ELSE pc' = "error" /\ Outcome' = <<>>]_vars

\* first(((1, "bar"), fn (a) => { a })) has given the tuple (1, "bar")
ProjectionRoundTripWitness ==
    /\ program = TFirst(TTuple(TTuple(TInt(1), TStr(Bar)), Identity))
    /\ pc = "done"
    /\ Outcome = <<TermValue(TTuple(TInt(1), TStr(Bar)))>>

\* C16 - Print leaves the operand stack, globals, call frames and
\* memoization table unchanged: it only peeks the top value and writes its
\* display form, so the value of a print term is the value of its argument.
PrintOnlyWrites ==
    [][Dispatching({"Print"})
       => /\ stack' = stack
          /\ globals' = globals
          /\ call_frames' = call_frames
          /\ memoization' = memoization
          /\ stack # <<>> => /\ output' = Append(output, Display(Top(stack)))
                             /\ pc' = "dispatch"]_vars

\* a Print has written the top value, with an entry in the memoization table
PrintOnlyWritesWitness ==
    /\ history.op = "Print"
    /\ pc = "dispatch"
    /\ memoization # <<>>
    /\ globals # <<>>
    /\ output # <<>>
    /\ Top(output) = Display(Top(stack))

RECURSIVE Denotes(_)
\* what a term made of literals, print, if-else and + denotes: its value and
\* the lines it prints, in order
Denotes(t) ==
    CASE t.kind = "Int" -> [value |-> Integer(t.value), output |-> <<>>]
      [] t.kind = "Str" -> [value |-> String(t.value), output |-> <<>>]
      [] t.kind = "Bool" -> [value |-> Bool(t.value), output |-> <<>>]
      [] t.kind = "Print" ->
             LET v == Denotes(t.value) IN
             [value |-> v.value, output |-> Append(v.output, Display(v.value))]
      [] t.kind = "If" ->
             LET c == Denotes(t.condition)
                 branch == Denotes(IF c.value.b THEN t.then ELSE t.otherwise)
             IN [value |-> branch.value, output |-> c.output \o branch.output]
      [] t.kind = "Binary" ->
             LET l == Denotes(t.lhs)
                 r == Denotes(t.rhs)
             IN [value |-> IF l.value.kind = "Integer"
                           THEN Integer(l.value.i + r.value.i)
                           ELSE String(l.value.s \o IntToChars(r.value.i)),
                 output |-> l.output \o r.output]

\* the if-else of an if-else program
IfOf(t) == IF t.kind = "If" THEN t ELSE t.lhs

\* C17 - For every compiled if-else (including nested ones), exactly one
\* branch executes: a true condition executes all instructions of the
\* then-branch and none of the else-branch, a false condition executes all of
\* the else-branch and none of the then-branch, and in both cases execution
\* continues at the instruction immediately after the else-branch; a non-Bool
\* condition is a type error.  Observed on branches that print: the lines
\* written and the value returned are those of the chosen branch followed by
\* those of the term after the if-else.
OneBranchExecutes ==
    /\ []((program \in IfPrograms /\ IfOf(program).condition.kind = "Bool" /\ Ended)
          => /\ pc = "done"
             /\ Outcome = <<Denotes(program).value>>
             /\ output = Denotes(program).output)
    /\ []((program \in IfPrograms /\ IfOf(program).condition.kind # "Bool" /\ Ended)
          => /\ pc = "error"
             /\ error = "Type error: if condition must evaluate to a boolean."
             /\ output = <<>>)
    /\ [][(Dispatching({"If"}) /\ stack # <<>> /\ Top(stack).kind = "Bool")
          => /\ pc' = "dispatch"
             /\ stack' = Front(stack)
             /\ skip' = IF Top(stack).b THEN 0 ELSE Current.a]_vars

\* a false condition has run the nested if-else of the else-branch, which
\* printed 4, and then the term after the if-else, which printed 1
OneBranchExecutesWitness ==
    /\ program = TBinary(TIf(TBool(FALSE), TPrint(TStr(Foo)),
                             TIf(TBool(FALSE), TPrint(TInt(3)),
                                 TIf(TBool(TRUE), TPrint(TInt(4)), TPrint(TInt(5))))),
                         "Add", TPrint(TInt(1)))
    /\ pc = "done"
    /\ output = <<<<"4">>, <<"1">>>>
    /\ Outcome = <<Integer(5)>>

\* the bytecode blocks the compiler produced: the top level with its final
\* Return, and every function body
Blocks == {bytecode} \cup {functions[k].bytecode : k \in 1..Len(functions)}

\* the positions of block that hold an If or a Jump
Jumps(block) == {j \in 1..Len(block) : block[j].op \in {"If", "Jump"}}

\* C18 - Jump targets: in every bytecode block produced by the compiler (top
\* level with its final Return, and every function body), the target of every
\* If(skip) and Jump(skip) is strictly greater than the position of the
\* instruction itself and lies within the same block: skip is at least 1, and
\* both the last instruction skipped and the one execution resumes at are
\* instructions of the block.
JumpTargets ==
    \A block \in Blocks : \A j \in Jumps(block) :
        /\ block[j].a >= 1
        /\ j + block[j].a + 1 <= Len(block)

\* a function body with one if-else nested in the else-branch of another has
\* been compiled
JumpTargetsWitness ==
    /\ pc = "done"
    /\ program \in FunctionPrograms
    /\ \E k \in 1..Len(functions) :
           LET block == functions[k].bytecode IN
           \E i \in Jumps(block), j \in Jumps(block) :
               /\ block[i].op = "If" /\ block[j].op = "If"
               /\ i + block[i].a < j /\ j <= i + block[i].a + block[i + block[i].a].a

RECURSIVE LetNames(_)
RECURSIVE LetNamesOfArguments(_)
LetNamesOfArguments(arguments) ==
    IF arguments = <<>> THEN <<>>
    ELSE LetNames(Head(arguments)) \o LetNamesOfArguments(Tail(arguments))

\* the names of the lets of a function body, in source order, the lets of
\* nested function bodies apart
LetNames(term) ==
    CASE term.kind \in {"Int", "Bool", "Str", "Var", "Error", "Function"} -> <<>>
      [] term.kind \in {"First", "Second", "Print"} -> LetNames(term.value)
      [] term.kind = "Tuple" -> LetNames(term.first) \o LetNames(term.second)
      [] term.kind = "Binary" -> LetNames(term.lhs) \o LetNames(term.rhs)
      [] term.kind = "If" ->
            LetNames(term.condition) \o LetNames(term.then) \o LetNames(term.otherwise)
      [] term.kind = "Let" -> LetNames(term.value) \o <<term.name>> \o LetNames(term.next)
      [] term.kind = "Call" -> LetNames(term.callee) \o LetNamesOfArguments(term.arguments)

RECURSIVE FunctionTerms(_)
RECURSIVE FunctionTermsOfArguments(_)
FunctionTermsOfArguments(arguments) ==
    IF arguments = <<>> THEN <<>>
    ELSE FunctionTerms(Head(arguments)) \o FunctionTermsOfArguments(Tail(arguments))

\* the Function terms of a term, each after the Function terms of its body
FunctionTerms(term) ==
    CASE term.kind \in {"Int", "Bool", "Str", "Var", "Error"} -> <<>>
      [] term.kind \in {"First", "Second", "Print"} -> FunctionTerms(term.value)
      [] term.kind = "Tuple" -> FunctionTerms(term.first) \o FunctionTerms(term.second)
      [] term.kind = "Binary" -> FunctionTerms(term.lhs) \o FunctionTerms(term.rhs)
      [] term.kind = "If" ->
            FunctionTerms(term.condition) \o FunctionTerms(term.then)
            \o FunctionTerms(term.otherwise)
      [] term.kind = "Let" -> FunctionTerms(term.value) \o FunctionTerms(term.next)
      [] term.kind = "Call" ->
            FunctionTerms(term.callee) \o FunctionTermsOfArguments(term.arguments)
      [] term.kind = "Function" -> Append(FunctionTerms(term.value), term)

\* C19 - Return well-formedness: every function body recorded in the
\* function table ends with exactly one Return(n) instruction, it is the last
\* instruction of the body, and n equals the number of entries of the
\* function's recorded locals list, which are the parameters followed by
\* every let of the body.
ReturnWellFormed ==
    bytecode # <<>> =>
        LET terms == FunctionTerms(Programs[program].term) IN
        /\ Len(functions) = Len(terms)
        /\ \A k \in 1..Len(functions) :
               LET body == functions[k].bytecode IN
               /\ body # <<>>
               /\ Top(body).op = "Return"
               /\ \A j \in 1..(Len(body) - 1) : body[j].op # "Return"
               /\ Top(body).a = Len(functions[k].locals)
               /\ functions[k].locals = terms[k].parameters \o LetNames(terms[k].value)

\* a function with a let in its body has been compiled: its Return counts
\* one local more than it has parameters
ReturnWellFormedWitness ==
    /\ bytecode # <<>>
    /\ \E k \in 1..Len(functions) :
           /\ functions[k].arity = 1
           /\ Top(functions[k].bytecode) = Instruction("Return", 2, 0)
           /\ Len(functions[k].locals) = 2

\* one iteration of the loops of run: the choice of the frame to run, a
\* skipped instruction, or the dispatch of an instruction
RunStep ==
    \/ SelectFrame \/ Finish \/ Skipped
    \/ DoConstant \/ DoTrueFalse \/ DoAdd \/ DoIntegerOp \/ DoDivRem \/ DoEqNeq \/ DoAndOr
    \/ DoTuple \/ DoFirstSecond \/ DoPrint \/ DoGlobalSet \/ DoGlobalGet \/ DoLocalGet
    \/ DoIf \/ DoJump \/ DoClosure \/ DoCall \/ DoTailCall \/ DoReturn

\* C20 - All errors terminate evaluation immediately: once any instruction
\* raises a runtime error, no further instruction is dispatched (in
\* particular no later Print writes output and no memoization entry or global
\* is added) and interpret returns an error.
ErrorsTerminate ==
    /\ [](error # "" => pc \in {"error", "panic"})
    /\ [](pc = "error" => ~ENABLED RunStep /\ Outcome = <<>> /\ error # "")
    /\ [][(pc = "dispatch" /\ pc' = "error")
          => /\ output' = output
             /\ memoization' = memoization
             /\ globals' = globals]_vars

\* a division by zero inside a call has ended the evaluation: the line
\* printed before it and the earlier memoization entry and global are all
\* there is
ErrorsTerminateWitness ==
    /\ memo_on
    /\ pc = "error"
    /\ Programs[program].term = ErrorInCall
    /\ error = "Attempted to divide by zero"
    /\ Len(call_frames) = 2
    /\ output = <<<<"7">>>>
    /\ Len(memoization) = 1
    /\ Len(globals) = 3

\* the number of operand-stack slots the instruction about to execute pops or
\* reads: two operands, one operand, the closure and arguments of a call
\* (and, for a TailCall, the caller's locals and closure slot below them), the
\* result, locals and closure slot of a function's Return
SlotsNeeded ==
    CASE Current.op \in {"Add", "Sub", "Mul", "Div", "Rem", "Eq", "Neq", "Gt", "Lt", "Gte",
                         "Lte", "And", "Or", "Tuple"} -> 2
      [] Current.op \in {"First", "Second", "Print", "GlobalSet", "If"} -> 1
      [] Current.op = "Call" -> Current.a + 1
      [] Current.op = "TailCall" ->
             IF CurrentFrame.closure.kind = "Closure"
             THEN Current.a + 1 + Len(At(functions, CurrentFrame.closure.function).locals) + 1
             ELSE Current.a + 1
      [] Current.op = "Return" -> IF Len(call_frames) > 1 THEN Current.a + 2 ELSE 1
      [] Current.op = "LocalGet" -> frame_index + Current.a + 1
      [] OTHER -> 0

\* C21 - Runtime invariant violations are never silent: whenever an
\* instruction needs to pop or read an operand-stack slot that does not exist
\* (stack underflow, including the pops done by a function's Return and the
\* slot arithmetic of Call / TailCall), evaluation stops with a fatal
\* diagnostic instead of continuing with a corrupted or unchanged stack.
UnderflowIsFatal ==
    [][(/\ pc = "dispatch"
        /\ skip = 0
        /\ instruction_pointer < Len(Code)
        /\ Len(stack) < SlotsNeeded)
       => pc' \in {"error", "panic"}]_vars

\* a Call or TailCall is about to execute and the callee slot exists
CallStep == Dispatching({"Call", "TailCall"}) /\ Len(stack) >= Current.a + 1

\* the value at stack position top - arity
Callee == At(stack, Len(stack) - 1 - Current.a)

\* C22 - Call(arity) and TailCall(arity) raise a runtime type error when the
\* value at stack position top - arity is not a closure, and when it is a
\* closure whose function arity differs from the call's arity; in both error
\* cases no call frame is pushed or popped and the memoization table is
\* neither consulted (no hit, current_execution not set) nor modified.
CallChecksCallee ==
    [][(/\ CallStep
        /\ \/ Callee.kind # "Closure"
           \/ At(functions, Callee.function).arity # Current.a)
       => /\ pc' = "error"
          /\ error' = (IF Callee.kind # "Closure"
                       THEN "Attempted to call value that is not a function!"
                       ELSE "Attempted to call function with wrong number of arguments.")
          /\ call_frames' = call_frames
          /\ memoization' = memoization
          /\ current_execution' = current_execution
          /\ stack' = stack]_vars

\* a TailCall(1) of a function of two parameters has ended the evaluation
\* inside the caller's frame
CallChecksCalleeWitness ==
    /\ pc = "error"
    /\ history.op = "TailCall"
    /\ error = "Attempted to call function with wrong number of arguments."
    /\ Len(call_frames) = 2
    /\ Top(stack).kind = "Integer"

\* the entries of the memoization table for the call of function index on i
EntriesFor(index, i) == {k \in 1..Len(memoization) : memoization[k].key = <<index, i>>}

\* the value of the first of them
Memoized(index, i) ==
    memoization[CHOOSE k \in EntriesFor(index, i) : \A j \in EntriesFor(index, i) : k <= j].value

\* op(1) is about to execute on a closure of a function of one parameter
\* with an Integer argument on top of the stack
UnaryIntCall(op) ==
    /\ Dispatching({op})
    /\ Current.a = 1
    /\ Len(stack) >= 2
    /\ Callee.kind = "Closure"
    /\ At(functions, Callee.function).arity = 1
    /\ Top(stack).kind = "Integer"

\* C23 - Call memoization hit: when Call(1) executes on a closure of function
\* f with top-of-stack argument Int(i) and the memoization table holds an
\* entry for (f.index, i), the callee closure and the argument are replaced on
\* the stack by the memoized value, no call frame is pushed, current_execution
\* is unchanged, and execution continues with the next instruction of the
\* same frame.
CallHit ==
    [][(/\ UnaryIntCall("Call")
        /\ EntriesFor(At(functions, Callee.function).index, Top(stack).i) # {})
       => /\ stack' = Append(Take(stack, Len(stack) - 2),
                             Memoized(At(functions, Callee.function).index, Top(stack).i))
          /\ call_frames' = call_frames
          /\ current_execution' = current_execution
          /\ memoization' = memoization
          /\ pc' = "dispatch"
          /\ skip' = 0
          /\ instruction_pointer' = instruction_pointer + 1]_vars

\* a Call inside a function has been answered from the table
CallHitWitness ==
    /\ memo_on
    /\ pc = "dispatch"
    /\ history.op = "Call"
    /\ history.hit
    /\ Len(call_frames) >= 2
    /\ memoization # <<>>
    /\ Top(stack) \in {memoization[k].value : k \in 1..Len(memoization)}

\* C24 - TailCall performs the same unary-int memoization probe as Call: when
\* TailCall(1) executes with argument Int(i) on top of the stack and the table
\* holds an entry for (f.index, i), the closure and argument are replaced by
\* the memoized value without changing the frame stack; on a miss
\* current_execution is set to (f.index, i).
TailCallProbes ==
    [][UnaryIntCall("TailCall")
       => LET index == At(functions, Callee.function).index
              i == Top(stack).i
          IN IF EntriesFor(index, i) # {}
             THEN /\ stack' = Append(Take(stack, Len(stack) - 2), Memoized(index, i))
                  /\ call_frames' = call_frames
             ELSE current_execution' = <<<<index, i>>>>]_vars

\* a Return is about to execute in a frame that a Call pushed and no TailCall
\* has replaced; history.callers holds, per call frame, the caller's operand
\* stack below the callee closure and the position after the Call, as they
\* were when the Call executed
ReturnOfCall ==
    /\ Dispatching({"Return"})
    /\ Len(call_frames) > 1
    /\ stack # <<>>
    /\ ~Top(history.callers).tail

\* C25 - Call/Return protocol: for every Call(arity) that pushes a frame, when
\* that frame's Return executes the operand stack equals the caller's stack as
\* it was just before the callee closure was pushed, plus exactly the return
\* value on top; the frame stack is one shorter, and the caller resumes at the
\* instruction immediately following the Call.
CallReturnProtocol ==
    [][ReturnOfCall
       => /\ stack' = Append(Top(history.callers).below, Top(stack))
          /\ call_frames' = Front(call_frames)
          /\ Top(call_frames').instruction_pointer = Top(history.callers).resume]_vars

\* a TailCall is about to execute on a closure of matching arity and its probe
\* of the memoization table does not hit
TailCallMiss ==
    /\ Dispatching({"TailCall"})
    /\ Len(stack) >= Current.a + 1
    /\ Len(call_frames) > 1
    /\ Callee.kind = "Closure"
    /\ At(functions, Callee.function).arity = Current.a
    /\ Probe(memoization, Current.a, TailCallLastArgument(stack),
             At(functions, Callee.function).index).hit = <<>>

\* C26 - TailCall frame reuse: a TailCall(arity) that does not hit the
\* memoization table leaves the number of call frames unchanged and leaves the
\* operand stack equal to the slots below the caller's closure slot followed
\* by the callee closure and its arity arguments in order, so that no slot of
\* any frame below the caller is removed or altered.
TailCallReusesFrame ==
    [][TailCallMiss
       => /\ Len(call_frames') = Len(call_frames)
          /\ stack' = Take(stack, CurrentFrame.frame_index - 1)
                      \o SubSeq(stack, Len(stack) - Current.a, Len(stack))]_vars

\* C27 - Frame-index invariant: in every reachable state, for every call frame
\* except the synthetic top-level frame, frame_index is at least 1 and at most
\* the operand-stack length, the slot at frame_index - 1 holds that frame's
\* closure, and the slots frame_index .. frame_index + arity - 1 hold the
\* call's arguments in order.  history.callers holds, per call frame, the
\* arguments of the Call or TailCall that entered it.
FrameIndexInvariant ==
    \A k \in 2..Len(call_frames) :
        LET frame == call_frames[k]
            arguments == history.callers[k].arguments
        IN /\ frame.frame_index >= 1
           /\ frame.frame_index <= Len(stack)
           /\ At(stack, frame.frame_index - 1) = frame.closure
           /\ frame.frame_index + Len(arguments) <= Len(stack)
           /\ \A j \in 1..Len(arguments) :
                  At(stack, frame.frame_index + j - 1) = arguments[j]

\* C28 - Local slot layout: whenever LocalGet(slot, ident) executes in a
\* function frame, the operand-stack slot frame_index + slot exists and holds
\* the value bound to the parameter or let named by ident in the current
\* invocation, also for lets placed in if branches.  Stated as: the slot
\* exists, the instruction pushes its value without raising an error, and for
\* a parameter that value is the argument the frame was entered with.
LocalSlotLayout ==
    [][(Dispatching({"LocalGet"}) /\ Len(call_frames) > 1)
       => /\ frame_index + Current.a < Len(stack)
          /\ pc' = "dispatch"
          /\ stack' = Append(stack, At(stack, frame_index + Current.a))
          /\ LET arguments == Top(history.callers).arguments
             IN Current.a < Len(arguments) => Top(stack') = arguments[Current.a + 1]]_vars

\* the bindings the closure of function f created in the current frame is to
\* hold: a captured name that is a local of the enclosing function is bound to
\* the value in that local's slot, any other captured name to the enclosing
\* closure's captured value of it, if there is one
CapturedBindings(f) ==
    LET parent == CurrentFrame.closure
        locals == At(functions, parent.function).locals
    IN {[name |-> v, value |-> At(stack, frame_index + Position(locals, v))] :
            v \in {w \in f.captured : Position(locals, w) >= 0}}
       \cup {[name |-> v, value |-> Find(parent.environment, v)[1]] :
            v \in {w \in f.captured : /\ Position(locals, w) < 0
                                      /\ Find(parent.environment, w) # <<>>}}

\* C29 - Closure construction captures by value at creation time: for each
\* name v in the captured set of function f, the new closure's captured list
\* binds v to the value of the enclosing function's local v at the moment
\* Closure(f) executes if the enclosing function has such a local, otherwise to
\* the enclosing closure's captured value of v if present, otherwise v is left
\* out; at the top-level frame the captured list is empty.
ClosureCaptures ==
    [][Dispatching({"Closure"})
       => LET f == At(functions, Current.a)
              parent == CurrentFrame.closure
          IN /\ pc' = "dispatch"
             /\ Len(stack') = Len(stack) + 1
             /\ Take(stack', Len(stack)) = stack
             /\ Top(stack').kind = "Closure"
             /\ Top(stack').function = Current.a
             /\ IF parent.kind # "Closure" THEN Top(stack').environment = <<>>
                ELSE /\ \A v \in f.captured :
                            Position(At(functions, parent.function).locals, v) >= 0
                            => frame_index + Position(At(functions, parent.function).locals, v)
                                   < Len(stack)
                     /\ {Top(stack').environment[k] :
                            k \in 1..Len(Top(stack').environment)} = CapturedBindings(f)
                     /\ Len(Top(stack').environment) = Cardinality(CapturedBindings(f))]_vars

\* the captured list of the current call frame: that of its closure, empty
\* for the top-level frame
CapturedList ==
    IF CurrentFrame.closure.kind = "Closure" THEN CurrentFrame.closure.environment ELSE <<>>

\* the values the global table binds to identifier
GlobalValues(identifier) ==
    {globals[k].value : k \in {j \in 1..Len(globals) : globals[j].name = identifier}}

\* C30 - GlobalGet resolution order: GlobalGet(i) pushes the value bound to
\* identifier i in the current frame's captured list when the name is present
\* there, even if a global of the same name exists; otherwise the global's
\* value; and when the name is in neither, it raises an error that names the
\* identifier and pushes nothing.  Which of several bindings of one global
\* name is read is the matter of C7 and is left open here.
GlobalGetOrder ==
    [][Dispatching({"GlobalGet"})
       => LET identifier == At(identifiers, Current.a) IN
          IF Find(CapturedList, identifier) # <<>>
          THEN /\ pc' = "dispatch"
               /\ stack' = Append(stack, Find(CapturedList, identifier)[1])
          ELSE IF GlobalValues(identifier) # {}
          THEN /\ pc' = "dispatch"
               /\ \E value \in GlobalValues(identifier) : stack' = Append(stack, value)
          ELSE /\ pc' = "error"
               /\ error' = "Unknown variable " \o identifier \o "."
               /\ stack' = stack]_vars

\* a GlobalGet has pushed the captured value of a name that the global table
\* binds to another value
GlobalGetOrderWitness ==
    /\ pc = "dispatch"
    /\ history.op = "GlobalGet"
    /\ stack # <<>>
    /\ \E k \in 1..Len(identifiers) :
           /\ Find(CapturedList, identifiers[k]) = <<Top(stack)>>
           /\ GlobalValues(identifiers[k]) # {}
           /\ Top(stack) \notin GlobalValues(identifiers[k])

\* C31 - Globals are written only by top-level lets: no instruction executed
\* in a function frame (any frame other than the top-level one) changes the
\* globals list, and the globals list only ever grows by appending (no entry
\* is removed or overwritten).
GlobalsOnlyAtTopLevel ==
    [][pc = "dispatch"
       => /\ Len(call_frames) > 1 => globals' = globals
          /\ \/ globals' = globals
             \/ /\ Len(globals') = Len(globals) + 1
                /\ Take(globals', Len(globals)) = globals]_vars

\* an instruction has executed in a function frame entered after two
\* top-level lets
GlobalsOnlyAtTopLevelWitness ==
    /\ pc = "dispatch"
    /\ Len(call_frames) > 1
    /\ history.op \in {"LocalGet", "GlobalGet", "Constant", "Add"}
    /\ Len(globals) >= 2

\* C32 - Memoization entries are truthful: each entry ((f, i), r) of the
\* memoization table was recorded by the Return of an invocation of function
\* f with the single argument Int(i), and r is the value that invocation
\* returned, also when f calls a function of arity other than 1 or with a
\* non-Int argument before returning.  history.callers holds, per call frame,
\* the function index and the arguments of the Call that pushed the frame; a
\* frame that tail calls returns what its tail callee returns.
MemoizationTruthful ==
    [][(pc = "dispatch" /\ memoization' # memoization)
       => /\ Dispatching({"Return"})
          /\ Len(call_frames) > 1
          /\ memoization' = Append(memoization,
                [key |-> <<Top(history.callers).entered[1],
                           Top(history.callers).entered[2].i>>,
                 value |-> Top(stack)])
          /\ Len(Top(history.callers).entered) = 2
          /\ Top(history.callers).entered[2].kind = "Integer"]_vars

\* the slot of the innermost binding of name among the locals of a function:
\* the last local of that name among the first bound ones
InnermostSlot(locals, name, bound) ==
    CHOOSE k \in 0..(Len(locals) - 1) :
        /\ At(locals, k) = name
        /\ k < bound
        /\ \A j \in (k + 1)..(Len(locals) - 1) : ~(At(locals, j) = name /\ j < bound)

\* C33 - Inside a function body, a variable reference evaluates to the value
\* of the innermost binding of that name that is in scope at the reference: a
\* let that shadows a parameter or an earlier let of the same name is the one
\* read by later references to that name.  Stated on the LocalGet of the
\* reference: it pushes the slot of the last local of that name whose value is
\* on the stack.
InnermostBindingRead ==
    [][(/\ Dispatching({"LocalGet"})
        /\ Len(call_frames) > 1
        /\ frame_index + Current.a < Len(stack))
       => LET locals == At(functions, CurrentFrame.closure.function).locals
              name == At(identifiers, Current.b)
          IN stack' = Append(stack,
                 At(stack, frame_index
                           + InnermostSlot(locals, name, Len(stack) - frame_index)))]_vars

\* C34 - Closure(f) executed in a function frame never reads an operand-stack
\* slot at or beyond the current stack length: for every captured name that
\* matches a local of the enclosing function, frame_index + slot_index is
\* below the stack length when the instruction runs, also when the closure is
\* the value of a let that binds the very name it refers to (a locally defined
\* recursive function).
ClosureReadsInBounds ==
    [][(Dispatching({"Closure"}) /\ CurrentFrame.closure.kind = "Closure")
       => LET locals == At(functions, CurrentFrame.closure.function).locals
          IN /\ \A v \in At(functions, Current.a).captured :
                    Position(locals, v) >= 0
                    => frame_index + Position(locals, v) < Len(stack)
             /\ pc' # "panic"]_vars

\* the keys of the memoization table
MemoKeys(table) == {table[k].key : k \in 1..Len(table)}

\* C35 - The memoization table holds at most one entry per key
\* (function_index, argument): a key is recorded only after a probe for it
\* missed, and no entry is ever removed or replaced.  Stated on the steps of
\* run: the table changes only by the appending of one entry, whose key is
\* the one in current_execution and has no entry yet, and current_execution
\* is set only to a key that has no entry.
OneEntryPerKey ==
    [][pc = "dispatch"
       => /\ \/ memoization' = memoization
             \/ /\ Len(memoization') = Len(memoization) + 1
                /\ Take(memoization', Len(memoization)) = memoization
                /\ current_execution = <<Top(memoization').key>>
                /\ Top(memoization').key \notin MemoKeys(memoization)
          /\ (current_execution' # current_execution /\ current_execution' # <<>>)
             => /\ Current.op \in {"Call", "TailCall"}
                /\ current_execution'[1] \notin MemoKeys(memoization)]_vars

\* a Return has recorded an entry in a table that already held one, after a
\* probe had been answered from the table
OneEntryPerKeyWitness ==
    /\ memo_on
    /\ history.op = "Return"
    /\ history.hit
    /\ Len(memoization) >= 2
    /\ Cardinality(MemoKeys(memoization)) = Len(memoization)

====
